---- MODULE Spec2Model ----
(***************************************************************************)
(* Model of the dueam mail cache synchronisation engine                    *)
(* (src-tauri/src/email_backend/sync/engine.rs).                           *)
(*                                                                         *)
(* Spec, SpecWriters: one folder of one account is synchronised by         *)
(* successive sync_folder calls (IDLE loop, periodic pass,                 *)
(* refresh_folder), each call broken into its database and IMAP steps,     *)
(* while the IMAP server, the background indexer and the UI (mark_as_read, *)
(* update_setting) act in between the steps.                               *)
(* SpecIdle: the tasks of trigger_sync_for_account, each running           *)
(* start_idle_for_account and run_idle_loop.                               *)
(* SpecStart: SyncEngine::start with its initial pass, the periodic task   *)
(* and the IDLE tasks it spawns, next to refresh_folder.                   *)
(* SpecSend: send_email (emails/commands.rs) with its token refresh.       *)
(* SpecContext: the context cache behind get_context, which is called by   *)
(* the commands but whose code the source tree lacks; it is modelled from  *)
(* the specification.                                                      *)
(* SpecIdleFair: SpecIdle on a runtime that runs every task that can run.  *)
(* SpecSubject: normalize_subject applied to a subject, twice in a row.    *)
(* SpecThreads: the emails rows of one inbox under save_envelopes,         *)
(* resolve_threads and get_emails.                                         *)
(* SpecManager: add_account and load of the account manager.               *)
(* SpecBatches: the full-sync loop of sync_folder, range by range.         *)
(* SpecRefs: SpecThreads over rows whose References header names several   *)
(* messages.                                                               *)
(* SpecGroups: SpecThreads over rows to several recipients, under the       *)
(* resolve_threads of the engine and that of the worker.                   *)
(* SpecAccount: sync_account over the folder listing of an account.        *)
(* SpecWorkers: the loop of SyncWorker::start (sync/worker.rs) and the      *)
(* tasks it spawns.                                                        *)
(* SpecIndexer, SpecIndexerFair: index_pending_emails over a store in which *)
(* mail arrives; the fair one calls the pass again and again.              *)
(* SpecShrink: the full-sync loop on a mailbox from which other sessions   *)
(* expunge messages between the fetches.                                   *)
(* SpecOverlap: the callers of sync_folder syncing one folder at           *)
(* overlapping times.                                                      *)
(* SpecSummaries: proactive_summarization next to the commands that write  *)
(* the same rows and settings.                                             *)
(***************************************************************************)
EXTENDS Integers, Sequences, FiniteSets, TLC

(* ------------------------------ bounds -------------------------------- *)
\* most messages held by the server mailbox at one time
MaxMsgs == 2
\* most messages ever delivered to the mailbox (message identities 1..MaxMid)
MaxMid == 2
\* UIDVALIDITY epochs the server goes through (1..MaxEpoch)
MaxEpoch == 2
\* accounts of the registry (account ids 1..MaxAccounts)
MaxAccounts == 2
\* folders of an account that map to a role (1 is INBOX)
MaxFolders == 2
\* trigger_sync_for_account tasks alive at one time
MaxTriggers == 2
\* commands that are inside get_context at one time
MaxCallers == 2
\* successful token refreshes of one account
MaxRefresh == 2
\* get_context calls made
MaxCalls == 3
\* pieces a drawn subject line is made of
MaxPieces == 3
\* messages of the threading model (message ids 1..MaxThread)
MaxThread == 3
\* distinct email addresses handed to add_account
MaxEmails == 2
\* largest `exists` of a folder whose full sync is followed batch by batch
MaxExists == 250
\* folders in the listing of an account
MaxListing == 2
\* sync_account calls followed one after the other
MaxPasses == 2
\* iterations of the worker's loop whose spawned tasks are alive at one time
MaxSpawns == 2
\* rows selected by one indexing pass of the worker's loop
MaxItems == 2
\* groups of rows that arrive in the store the indexer works on
MaxGroups == 3
\* emails rows of the store proactive_summarization works on
MaxRows == 2
\* messages that one EXPUNGE of the shrinking mailbox removes in a block
MaxBlock == 50
\* largest UIDNEXT of the folder that overlapping callers sync
MaxUidNext == 3

(* ------------------------- program constants -------------------------- *)
SYNC_BATCH_SIZE == 100
\* sleep of the periodic sync task, seconds
PERIODIC_SYNC_SECS == 300
\* sleep of start_idle_for_account after an error of run_idle_loop, seconds
IDLE_RETRY_SECS == 30
\* sleep of the timer task of an IDLE wait, seconds (29 * 60)
IDLE_REFRESH_SECS == 1740
\* batch_size handed to resolve_threads while the backlog is small
RESOLVE_BATCH == 100
\* LIMIT of the SELECT of index_pending_emails
INDEX_BATCH == 20
\* LIMIT of the SELECT of proactive_summarization
SUMMARY_BATCH == 10
\* sleep of the worker's loop after its indexing pass, seconds
WORKER_INDEX_SECS == 10
\* sleep of a spawned enrichment or summarization task after its pass, seconds
WORKER_CYCLE_SECS == 120
\* sleep of a spawned thread resolution task: backlog above 1000, or not
THREADS_BUSY_SECS == 5
THREADS_CALM_SECS == 30

VARIABLES
  srvMsgs,          \* server mailbox: sequence (by sequence number) of [uid, mid, flags]
  srvUidValidity,   \* server UIDVALIDITY of the mailbox
  srvUidNext,       \* server UIDNEXT of the mailbox
  nextMid,          \* identity given to the next delivered message
  folder,           \* the folders row of (account_id, path)
  emails,           \* the emails rows of that folder
  settings,         \* the settings table (key notificationsEnabled)
  pc,               \* position of the sync_folder call
  folder_data,      \* descriptor handed to sync_folder: uid_validity, uid_next, exists
  stored,           \* locals stored_uid_validity, stored_uid_next
  mode,             \* branch taken by the call: none, full, incr, noop
  end,              \* local `end` of the full sync loop
  batch,            \* envelopes of the batch being saved (remaining part)
  notify,           \* argument `notify` of the running save_envelopes
  counts,           \* locals success_count, failure_count of save_envelopes
  requests,         \* fetch requests issued by the call, in order
  fetched,          \* (id, message_id) of the envelopes fetched by the call
  shown,            \* number of OS notifications shown by the call
  pre,              \* the folder row and the number of rows when the call was made
  clean,            \* no call failed, nothing expunged, no epoch change so far
  dispatched,       \* the OS notification shown last by the running call
  \* the engine's tasks (start, the periodic task, the IDLE tasks)
  idle_senders,     \* SyncEngine.idle_senders: account id -> task whose receiver
                    \* pairs with the stored sender (0: no entry)
  tAcct,            \* account of each task slot (0: no task)
  tBy,              \* who spawned the task: start or trigger_sync_for_account
  tPc,              \* position of the task
  tRun,             \* position of the task's sync_account (trigger tasks)
  tTimer,           \* seconds left of the timer the task waits on (-1: none)
  tWaited,          \* seconds the task has spent in its IDLE wait
  startPc,          \* position of SyncEngine::start
  pass,             \* the running sync_all_accounts
  periodicLeft,     \* seconds left of the periodic task's sleep (-1: not asleep)
  periodicSlept,    \* seconds the periodic task has slept since it went to sleep
  refresh,          \* position of the refresh_folder call of each account
  \* tokens, the context cache and send_email
  tokenOf,          \* version of the access token the registry holds per account
  contexts,         \* the context cache: entries [account_id, context]
  gc,               \* the get_context call of each caller
  built,            \* contexts built so far for each account
  hist,             \* per account: a build failed with an auth error, calls overlapped
  calls,            \* number of get_context calls made so far
  ret,              \* what the get_context call that returned last has returned
  send,             \* the running send_email
  \* pure functions applied to drawn inputs
  ns,               \* normalize_subject applied to a subject, twice in a row
  \* threading
  mail,             \* emails rows of one account's inbox, by row id: message_id,
                    \* thread_id, in_reply_to, references_header, normalized_subject
  rt,               \* the running resolve_threads
  listing,          \* what get_emails returned last
  \* account manager
  accounts_table,   \* rows of the accounts table: id, email, name
  accounts_file,    \* accounts.json.enc: present or not, the accounts saved
  aa,               \* the running add_account
  added,            \* per email, the account of the last add_account that returned Ok
  \* batches of a full sync
  fs,               \* the full-sync loop of one sync_folder: `end`, the ranges
                    \* requested so far and whether each was saved
  \* the folders of an account
  sa,               \* the running sync_account: listing, position, what it
                    \* selected and synced
  folder_rows,      \* names of the remote folders that have a folders row
  passLog,          \* results of the sync_account calls that returned
  \* the sync worker
  wk,               \* the loop of SyncWorker::start: position, items left of the
                    \* indexing pass, what the passes did
  spawned,          \* the tasks spawned by the loop, one record per iteration:
                    \* seconds since the spawn, whether it came less than the
                    \* cycle delay after the one before, where each task stands
  \* the rows the indexer works on
  backlog,          \* emails rows of the store, oldest first, in groups of
                    \* rows that arrived together: how the server answers a
                    \* fetch of them, the role of their folder, how many rows,
                    \* how many of them still have a NULL body_text
  ix,               \* the running index_pending_emails: position, the rows
                    \* selected and not yet gone through
  \* proactive summarization
  ai_settings,      \* settings rows aiEnabled, aiSummarizationEnabled ("none":
                    \* no row)
  summaries,        \* per emails row: who wrote its summary (0: NULL), whether
                    \* it has body_text, the role of its folder
  ps,               \* the running proactive_summarization: position, the
                    \* settings it read, the rows selected, the rows left
  \* a full sync of a mailbox that shrinks
  xs,               \* the full sync followed: position, `exists` of the
                    \* descriptor, `end`, batches saved, and whether messages
                    \* were expunged before the first fetch or between two
  alive,            \* the messages still in the mailbox, each named by the
                    \* sequence number (and UID) it had at the select
  local,            \* the messages that have a local row
  \* overlapping syncs of one folder
  box,              \* the server's UIDVALIDITY and UIDNEXT of the folder
  folder_row,       \* the folders row: present, uid_validity, uid_next
  oc                \* per caller of sync_folder: position and the descriptor
                    \* its select_mailbox returned

syncVars == <<srvMsgs, srvUidValidity, srvUidNext, nextMid, folder, emails, settings,
              pc, folder_data, stored, mode, end, batch, notify, counts, requests,
              fetched, shown, pre, clean, dispatched>>
taskVars == <<idle_senders, tAcct, tBy, tPc, tRun, tTimer, tWaited>>
driverVars == <<startPc, pass, periodicLeft, periodicSlept>>
engineVars == <<taskVars, driverVars, refresh>>
\* what the steps of sync_folder and of the other writers leave alone
gcVars == <<contexts, gc, built, hist, calls, ret>>
authVars == <<tokenOf, gcVars, send>>
subjVars == <<ns>>
threadVars == <<mail, rt, listing>>
managerVars == <<accounts_table, accounts_file, aa, added>>
batchVars == <<fs>>
accountVars == <<sa, folder_rows, passLog>>
workerVars == <<wk, spawned>>
indexVars == <<backlog, ix>>
summaryVars == <<ai_settings, summaries, ps>>
shrinkVars == <<xs, alive, local>>
overlapVars == <<box, folder_row, oc>>
extraVars == <<subjVars, threadVars, managerVars, batchVars, accountVars, workerVars, indexVars, summaryVars, shrinkVars, overlapVars>>
outsideSync == <<engineVars, authVars, extraVars>>
\* what the steps of normalize_subject leave alone
outsideSubject ==
  <<syncVars, engineVars, authVars, threadVars, managerVars, batchVars, accountVars, workerVars, indexVars, summaryVars, shrinkVars, overlapVars>>
\* what resolve_threads and get_emails leave alone
outsideThreads ==
  <<syncVars, engineVars, authVars, subjVars, managerVars, batchVars, accountVars, workerVars, indexVars, summaryVars, shrinkVars, overlapVars>>
\* what the account manager leaves alone
outsideManager ==
  <<syncVars, engineVars, authVars, subjVars, threadVars, batchVars, accountVars, workerVars, indexVars, summaryVars, shrinkVars, overlapVars>>
\* what sync_account followed folder by folder leaves alone
outsideAccount ==
  <<syncVars, engineVars, authVars, subjVars, threadVars, managerVars, batchVars, workerVars, indexVars, summaryVars, shrinkVars, overlapVars>>
\* what the full-sync loop followed batch by batch leaves alone
outsideBatches ==
  <<syncVars, engineVars, authVars, subjVars, threadVars, managerVars, accountVars, workerVars, indexVars, summaryVars, shrinkVars, overlapVars>>
\* what the worker's loop and the tasks it spawns leave alone
outsideWorkers ==
  <<syncVars, engineVars, authVars, subjVars, threadVars, managerVars, batchVars, accountVars, indexVars, summaryVars, shrinkVars, overlapVars>>
\* what the indexing pass followed row by row leaves alone
outsideIndexer ==
  <<syncVars, engineVars, authVars, subjVars, threadVars, managerVars, batchVars, accountVars, workerVars, summaryVars, shrinkVars, overlapVars>>
\* what proactive_summarization and the commands next to it leave alone
outsideSummaries ==
  <<syncVars, engineVars, authVars, subjVars, threadVars, managerVars, batchVars, accountVars, workerVars, indexVars, shrinkVars, overlapVars>>
\* what the full sync of a mailbox that shrinks leaves alone
outsideShrink ==
  <<syncVars, engineVars, authVars, subjVars, threadVars, managerVars, batchVars, accountVars, workerVars, indexVars, summaryVars, overlapVars>>
\* what the overlapping sync_folder calls of one folder leave alone
outsideOverlap ==
  <<syncVars, engineVars, authVars, subjVars, threadVars, managerVars, batchVars, accountVars, workerVars, indexVars, summaryVars, shrinkVars>>
vars == <<syncVars, outsideSync>>

srvVars == <<srvMsgs, srvUidValidity, srvUidNext, nextMid>>
callVars == <<pc, folder_data, stored, mode, end, batch, notify, counts, requests,
              fetched, shown, pre>>

(* ------------------------------ helpers ------------------------------- *)
Min(a, b) == IF a < b THEN a ELSE b
Max(a, b) == IF a > b THEN a ELSE b

\* `x as u32` of an i64 column that holds a value read from a NonZeroU32 or
\* 0: the cast keeps every value in 0..2^32-1, the only ones that occur
AsU32(x) == x

\* NonZeroU32::new(x).unwrap_or(NonZeroU32::new(1).unwrap())
NonZeroOr1(x) == IF x = 0 THEN 1 ELSE x

FlagSets == {{}, {"seen"}}

\* SQL: flags NOT LIKE '%seen%' AND flags NOT LIKE '%"seen"%', on the JSON
\* array of flag names; a flag name matches when it contains "seen"
NameContainsSeen(f) == f \in {"seen"}
NotLikeSeen(flags) == \A f \in flags : ~NameContainsSeen(f)

\* envelope of a server message: id is the UID, flags as reported
Envelope(m) == [id |-> m.uid, message_id |-> m.mid, flags |-> m.flags]

\* FETCH start:end by sequence number
FetchBySequence(start, last) ==
  [i \in 1..(Min(last, Len(srvMsgs)) - start + 1) |-> Envelope(srvMsgs[start + i - 1])]

\* the largest UID in the mailbox, 0 when empty
MaxUid == IF srvMsgs = <<>> THEN 0 ELSE srvMsgs[Len(srvMsgs)].uid

\* UID FETCH n:* : `*` is the largest UID in use, and the range n:* covers
\* the UIDs between n and it in either order
UidRangeLow(n) == Min(n, MaxUid)
FetchByUidFrom(n) ==
  LET hit == SelectSeq(srvMsgs, LAMBDA m : m.uid >= UidRangeLow(n))
  IN [i \in 1..Len(hit) |-> Envelope(hit[i])]

(* --------------------------- the emails table ------------------------- *)
HasRow(rows, id) == \E r \in rows : r.remote_id = id
RowOf(rows, id) == CHOOSE r \in rows : r.remote_id = id

\* the row an INSERT builds from an envelope; thread_id defaults to message_id
NewRow(env) ==
  [remote_id |-> env.id, message_id |-> env.message_id, thread_id |-> env.message_id,
   flags |-> env.flags, body_text |-> 0]

\* variant: the conflict replaces the whole row (INSERT OR REPLACE)
ConflictUpdateReplace(row, env) ==
  [remote_id |-> env.id, message_id |-> env.message_id, thread_id |-> env.message_id,
   flags |-> env.flags, body_text |-> 0]

\* ON CONFLICT(folder_id, remote_id) DO UPDATE SET flags=excluded.flags
ConflictUpdate(row, env) == [row EXCEPT !.flags = env.flags]

\* INSERT INTO emails ... ON CONFLICT ... DO UPDATE
Upsert(rows, env) ==
  IF HasRow(rows, env.id)
    THEN (rows \ {RowOf(rows, env.id)}) \cup {ConflictUpdate(RowOf(rows, env.id), env)}
    ELSE rows \cup {NewRow(env)}

\* rows_affected() of the upsert: SQLite counts the inserted row and also the
\* row changed by DO UPDATE
RowsAffected(existed) == 1

\* notify && r.rows_affected() > 0 && !flags.contains("seen")
ShouldNotify(n, existed, flags) ==
  n /\ RowsAffected(existed) > 0 /\ "seen" \notin flags

\* SELECT COUNT(*) FROM emails WHERE folder_id = ? AND flags NOT LIKE '%seen%'
UnreadCount(rows) == Cardinality({r \in rows : NotLikeSeen(r.flags)})

(* ------------------------------- Init ---------------------------------- *)
NoFolder ==
  [present |-> FALSE, role |-> "", uid_validity |-> 0, uid_next |-> 0,
   total_count |-> 0, unread_count |-> 0]

\* no notification shown
NoDispatch == [body |-> "none", enabled |-> "", ai |-> "", polled |-> FALSE]

Accounts == 1..MaxAccounts
Folders == 1..MaxFolders
\* task slots: slot a is the IDLE task start() spawns for account a, the
\* others are the tasks of trigger_sync_for_account
Tasks == 1..(MaxAccounts + MaxTriggers)
\* no sync_account running
NoRun == [acct |-> 0, folder |-> 0, step |-> "none"]
Callers == 1..MaxCallers
\* no context
NoContext == [serial |-> 0, token |-> 0]
\* no get_context call
NoCall == [pc |-> "idle", account_id |-> 0, context |-> NoContext,
           refreshed |-> FALSE, failed_token |-> 0]
\* no get_context call has returned
NoReturn == [account_id |-> 0, context |-> NoContext, err |-> "", hit |-> FALSE,
             refreshed |-> FALSE]
\* no send_email call
NoSend == [pc |-> "idle", step |-> "", account_id |-> 0, err |-> "",
           refreshes |-> [build |-> 0, send |-> 0],
           tries |-> [build |-> 0, send |-> 0]]
\* no sync_all_accounts running
NoPass == [kind |-> "none", next |-> 0, run |-> NoRun, stuck |-> FALSE, failed |-> FALSE]

InitSync ==
  /\ srvMsgs = <<>>
  /\ srvUidValidity = 1
  /\ srvUidNext = 1
  /\ nextMid = 1
  /\ folder = NoFolder
  /\ emails = {}
  /\ settings = [notificationsEnabled |-> "true", aiSummarizationEnabled |-> "false"]
  /\ pc = "idle"
  /\ folder_data = [uid_validity |-> 0, uid_next |-> 0, exists |-> 0]
  /\ stored = [uid_validity |-> 0, uid_next |-> 0]
  /\ mode = "none"
  /\ end = 0
  /\ batch = <<>>
  /\ notify = FALSE
  /\ counts = [success |-> 0, failure |-> 0]
  /\ requests = <<>>
  /\ fetched = {}
  /\ shown = 0
  /\ pre = [present |-> FALSE, uid_next |-> 0, total_count |-> 0, rows |-> 0]
  /\ clean = TRUE
  /\ dispatched = NoDispatch

\* SyncEngine::new: no sender registered, nothing spawned
InitEngine ==
  /\ idle_senders = [a \in Accounts |-> 0]
  /\ tAcct = [t \in Tasks |-> 0]
  /\ tBy = [t \in Tasks |-> "none"]
  /\ tPc = [t \in Tasks |-> "none"]
  /\ tRun = [t \in Tasks |-> NoRun]
  /\ tTimer = [t \in Tasks |-> -1]
  /\ tWaited = [t \in Tasks |-> 0]
  /\ startPc = "new"
  /\ pass = NoPass
  /\ periodicLeft = -1
  /\ periodicSlept = 0
  /\ refresh = [a \in Accounts |-> "none"]

\* tokens as stored at login, empty context cache, no command running
InitAuth ==
  /\ tokenOf = [a \in Accounts |-> 0]
  /\ contexts = {}
  /\ gc = [c \in Callers |-> NoCall]
  /\ built = [a \in Accounts |-> 0]
  /\ hist = [a \in Accounts |-> [authFailed |-> FALSE, overlapped |-> FALSE]]
  /\ calls = 0
  /\ ret = NoReturn
  /\ send = NoSend

\* normalize_subject not called
NoSubject == [pc |-> "idle", subject |-> "", s |-> "", round |-> 0, first |-> ""]

\* no sync_account followed
NoSyncAccount == [pc |-> "idle", folders |-> <<>>, i |-> 0, role |-> "",
                  selected |-> <<>>, synced |-> {}, result |-> ""]
\* no full sync running
NoFullSync == [pc |-> "idle", exists |-> 0, end |-> 0, ranges |-> <<>>,
               empty |-> FALSE, result |-> ""]
\* add_account not running
NoAdd == [pc |-> "idle", account |-> [email |-> 0, id |-> 0, name |-> "", token |-> 0],
          registry |-> <<>>, result |-> ""]
\* resolve_threads not running
NoResolve == [pc |-> "idle", by |-> "", queue |-> <<>>, sel1 |-> {}]
\* get_emails not called since the rows changed
NoListing == [valid |-> FALSE, entries |-> {}]

\* SyncWorker::start has not been called
NoWorker == [pc |-> "off", left |-> 0, failed |-> 0, result |-> "", since |-> 0]

\* no index_pending_emails is running
NoIndexing == [pc |-> "idle", pending_emails |-> <<>>]

\* no proactive_summarization is running
NoSummarization == [pc |-> "idle", ai_enabled |-> "", ai_summarization_enabled |-> "",
                    selected |-> {}, pending_summaries |-> <<>>]

\* no full sync of a shrinking mailbox is followed
NoShrinkSync == [pc |-> "idle", exists |-> 0, end |-> 0, result |-> "",
                 saved |-> 0, expunged |-> "no"]

\* the callers of sync_folder: run_idle_loop, sync_account (periodic pass,
\* trigger_sync_for_account) and refresh_folder
SyncCallers == {"idle", "periodic", "refresh"}
\* the caller is not syncing the folder
NoOverlapCall == [pc |-> "idle", uid_validity |-> 0, uid_next |-> 0]

InitExtra ==
  /\ ns = NoSubject
  /\ mail = <<>>
  /\ rt = NoResolve
  /\ listing = NoListing
  /\ accounts_table = {}
  /\ accounts_file = [exists |-> FALSE, accounts |-> <<>>]
  /\ aa = NoAdd
  /\ added = [e \in {} |-> 0]
  /\ fs = NoFullSync
  /\ sa = NoSyncAccount
  /\ folder_rows = {}
  /\ passLog = <<>>
  /\ wk = NoWorker
  /\ spawned = <<>>
  /\ backlog = <<>>
  /\ ix = NoIndexing
  /\ ai_settings = [aiEnabled |-> "none", aiSummarizationEnabled |-> "none"]
  /\ summaries = [id \in 1..MaxRows |-> [summary |-> 0, body_text |-> FALSE,
                                         role |-> "inbox"]]
  /\ ps = NoSummarization
  /\ xs = NoShrinkSync
  /\ alive = {}
  /\ local = {}
  /\ box = [uid_validity |-> 1, uid_next |-> 1]
  /\ folder_row = [present |-> FALSE, uid_validity |-> 0, uid_next |-> 0]
  /\ oc = [c \in SyncCallers |-> NoOverlapCall]

Init == InitSync /\ InitEngine /\ InitAuth /\ InitExtra

InCall == pc \in {"lookup", "purge", "full", "incr", "save", "update"}

\* the call has returned and its result is being looked at; the caller's
\* return (Return) comes before anything else acts
Settled == pc \in {"done", "failed"}

\* the server acts between calls and right before a fetch of the running
\* call; the other steps of a call do not read the server, so a server step
\* in front of them gives the same run as that step after them
ServerTurn == pc \in {"idle", "full", "incr"}

\* the indexer and the UI commands write single rows in statements of
\* their own; they are taken between two calls
WriterTurn == pc = "idle"

(* ------------------------- the IMAP server ----------------------------- *)
\* a message arrives in the mailbox and takes the UID UIDNEXT
Deliver ==
  /\ ServerTurn
  /\ Len(srvMsgs) < MaxMsgs
  /\ nextMid <= MaxMid
  /\ \E fl \in FlagSets :
       srvMsgs' = Append(srvMsgs, [uid |-> srvUidNext, mid |-> nextMid, flags |-> fl])
  /\ srvUidNext' = srvUidNext + 1
  /\ nextMid' = nextMid + 1
  /\ UNCHANGED <<srvUidValidity, folder, emails, settings, callVars, clean>>
  /\ UNCHANGED <<dispatched, outsideSync>>

\* a message is expunged by another client
Expunge ==
  /\ ServerTurn
  /\ \E i \in 1..Len(srvMsgs) :
       srvMsgs' = [j \in 1..(Len(srvMsgs) - 1) |->
                     IF j < i THEN srvMsgs[j] ELSE srvMsgs[j + 1]]
  /\ clean' = FALSE
  /\ UNCHANGED <<srvUidValidity, srvUidNext, nextMid, folder, emails, settings, callVars>>
  /\ UNCHANGED <<dispatched, outsideSync>>

\* another client reads a message: the server sets \Seen
SrvAddSeen ==
  /\ ServerTurn
  /\ \E i \in 1..Len(srvMsgs) :
       /\ "seen" \notin srvMsgs[i].flags
       /\ srvMsgs' = [srvMsgs EXCEPT ![i].flags = @ \cup {"seen"}]
  /\ UNCHANGED <<srvUidValidity, srvUidNext, nextMid, folder, emails, settings,
                 callVars, clean>>
  /\ UNCHANGED <<dispatched, outsideSync>>

\* the server renumbers the mailbox: new UIDVALIDITY, UIDs 1..n, UIDNEXT n+1.
\* UIDVALIDITY is fixed while a mailbox is selected, so not during a call.
Renumber ==
  /\ pc = "idle"
  /\ srvUidValidity < MaxEpoch
  /\ srvUidValidity' = srvUidValidity + 1
  /\ srvMsgs' = [i \in 1..Len(srvMsgs) |-> [srvMsgs[i] EXCEPT !.uid = i]]
  /\ srvUidNext' = Len(srvMsgs) + 1
  /\ clean' = FALSE
  /\ UNCHANGED <<nextMid, folder, emails, settings, callVars>>
  /\ UNCHANGED <<dispatched, outsideSync>>

(* ---------------------------- sync_folder ------------------------------ *)
\* the caller selects the mailbox and hands the descriptor to sync_folder;
\* uid_next is 0 when the server did not report UIDNEXT (unwrap_or(0))
SelectMailbox ==
  /\ pc = "idle"
  /\ \E reported \in BOOLEAN :
       folder_data' = [uid_validity |-> srvUidValidity,
                       uid_next |-> IF reported THEN srvUidNext ELSE 0,
                       exists |-> Len(srvMsgs)]
  /\ pre' = [present |-> folder.present, uid_next |-> folder.uid_next,
             total_count |-> folder.total_count, rows |-> Cardinality(emails)]
  /\ pc' = "lookup"
  /\ UNCHANGED <<srvVars, folder, emails, settings, stored, mode, end, batch, notify,
                 counts, requests, fetched, shown, clean>>
  /\ UNCHANGED <<dispatched, outsideSync>>

\* the folders row sync_folder inserts when the folder is not in the store
SeededFolder(role) ==
  [present |-> TRUE, role |-> role, uid_validity |-> folder_data.uid_validity,
   uid_next |-> folder_data.uid_next, total_count |-> folder_data.exists,
   unread_count |-> 0]

\* step 1: get the stored folder row (updating its role) or create it
LookupFolder ==
  /\ pc = "lookup"
  /\ IF folder.present
       THEN /\ stored' = [uid_validity |-> folder.uid_validity, uid_next |-> folder.uid_next]
            /\ folder' = [folder EXCEPT !.role = "inbox"]
       ELSE /\ stored' = [uid_validity |-> 0, uid_next |-> 0]
            /\ folder' = SeededFolder("inbox")
  /\ pc' = "purge"
  /\ UNCHANGED <<srvVars, emails, settings, folder_data, mode, end, batch, notify,
                 counts, requests, fetched, shown, pre, clean>>
  /\ UNCHANGED <<dispatched, outsideSync>>

\* variant: the zero test of the purge condition is inverted
UidValidityChangedZeroTest(st, fd) ==
  st.uid_validity = 0 /\ st.uid_validity # fd.uid_validity

\* stored_uid_validity != 0 && stored_uid_validity != current_uid_validity
UidValidityChanged(st, fd) ==
  st.uid_validity # 0 /\ st.uid_validity # fd.uid_validity

\* variant: the incremental branch is taken with <= for <
SyncModeLe(st, fd) ==
  IF st.uid_validity # fd.uid_validity \/ st.uid_next = 0 THEN "full"
  ELSE IF AsU32(st.uid_next) <= AsU32(fd.uid_next) THEN "incr"
  ELSE "noop"

\* the branch sync_folder takes
SyncMode(st, fd) ==
  IF st.uid_validity # fd.uid_validity \/ st.uid_next = 0 THEN "full"
  ELSE IF AsU32(st.uid_next) < AsU32(fd.uid_next) THEN "incr"
  ELSE "noop"

\* step 2: clear the local cache on a UIDVALIDITY change, then pick the branch
PurgeAndDecide ==
  /\ pc = "purge"
  /\ emails' = IF UidValidityChanged(stored, folder_data) THEN {} ELSE emails
  /\ mode' = SyncMode(stored, folder_data)
  /\ end' = IF mode' = "full" THEN AsU32(folder_data.exists) ELSE 0
  /\ pc' = CASE mode' = "full" -> "full"
             [] mode' = "incr" -> "incr"
             [] OTHER -> "update"
  /\ UNCHANGED <<srvVars, folder, settings, folder_data, stored, batch, notify,
                 counts, requests, fetched, shown, pre, clean>>
  /\ UNCHANGED <<dispatched, outsideSync>>

\* variant: the start is one lower
BatchStartOneLower(e) == IF e > SYNC_BATCH_SIZE THEN e - SYNC_BATCH_SIZE ELSE 1

\* start of the batch that ends at sequence number e
BatchStart(e) == IF e > SYNC_BATCH_SIZE THEN e - SYNC_BATCH_SIZE + 1 ELSE 1

\* `end` after the batch that ends at e was saved
NextEnd(e) == IF BatchStart(e) > 1 THEN BatchStart(e) - 1 ELSE 0

\* variant: a full sync always passes notify = true
FullSyncNotifyAlways(st) == TRUE

\* !is_initial, the `notify` argument of a full sync batch
FullSyncNotify(st) == ~(st.uid_next = 0)

EnvelopeKeys(envelopes) ==
  {[id |-> envelopes[i].id, message_id |-> envelopes[i].message_id] :
     i \in 1..Len(envelopes)}

\* variant: an empty batch does not end the loop
IsEmptyNever(envelopes) == FALSE

\* envelopes.is_empty()
IsEmpty(envelopes) == envelopes = <<>>

\* full sync loop: test `end > 0`, fetch the batch, break when it is empty
FullFetch ==
  /\ pc = "full"
  /\ IF end > 0
       THEN LET start == NonZeroOr1(BatchStart(end))
                last == NonZeroOr1(end)
                envelopes == FetchBySequence(start, last)
            IN /\ requests' = Append(requests, [kind |-> "seq", start |-> start, last |-> last])
               /\ fetched' = fetched \cup EnvelopeKeys(envelopes)
               /\ IF IsEmpty(envelopes)
                    THEN /\ pc' = "update"
                         /\ UNCHANGED <<batch, notify, counts>>
                    ELSE /\ pc' = "save"
                         /\ batch' = envelopes
                         /\ notify' = FullSyncNotify(stored)
                         /\ counts' = [success |-> 0, failure |-> 0]
       ELSE /\ pc' = "update"
            /\ UNCHANGED <<requests, fetched, batch, notify, counts>>
  /\ UNCHANGED <<srvVars, folder, emails, settings, folder_data, stored, mode, end,
                 shown, pre, clean>>
  /\ UNCHANGED <<dispatched, outsideSync>>

\* incremental sync: UID FETCH stored_uid_next:*
IncrFetch ==
  /\ pc = "incr"
  /\ LET start_uid == NonZeroOr1(AsU32(stored.uid_next))
         envelopes == FetchByUidFrom(start_uid)
     IN /\ requests' = Append(requests, [kind |-> "uid", start |-> start_uid, last |-> 0])
        /\ fetched' = fetched \cup EnvelopeKeys(envelopes)
        /\ IF envelopes = <<>>
             THEN /\ pc' = "update"
                  /\ UNCHANGED <<batch, notify, counts>>
             ELSE /\ pc' = "save"
                  /\ batch' = envelopes
                  /\ notify' = TRUE
                  /\ counts' = [success |-> 0, failure |-> 0]
  /\ UNCHANGED <<srvVars, folder, emails, settings, folder_data, stored, mode, end,
                 shown, pre, clean>>
  /\ UNCHANGED <<dispatched, outsideSync>>

(* --------------------------- save_envelopes ---------------------------- *)
\* one iteration of `for env in envelopes`: the upsert succeeds or fails;
\* on success the notification is shown when ShouldNotify says so
PlainNotification ==
  [body |-> "plain", enabled |-> settings.notificationsEnabled,
   ai |-> settings.aiSummarizationEnabled, polled |-> FALSE]

SaveRow ==
  /\ pc = "save"
  /\ batch # <<>>
  /\ LET env == Head(batch)
         existed == HasRow(emails, env.id)
     IN \E ok \in BOOLEAN :
          /\ emails' = IF ok THEN Upsert(emails, env) ELSE emails
          /\ counts' = IF ok THEN [counts EXCEPT !.success = @ + 1]
                             ELSE [counts EXCEPT !.failure = @ + 1]
          /\ shown' = IF ok /\ ShouldNotify(notify, existed, env.flags)
                        THEN shown + 1 ELSE shown
          /\ dispatched' = IF ok /\ ShouldNotify(notify, existed, env.flags)
                             THEN PlainNotification ELSE dispatched
  /\ batch' = Tail(batch)
  /\ UNCHANGED <<srvVars, folder, settings, pc, folder_data, stored, mode, end, notify,
                 requests, fetched, pre, clean>>
  /\ UNCHANGED outsideSync

\* variant: any failed row fails the batch
BatchFailedOnAnyRow(c) == c.failure > 0

\* failure_count > 0 && success_count == 0
BatchFailed(c) == c.failure > 0 /\ c.success = 0

\* after the loop: recompute unread_count from the stored rows, then return;
\* on Err sync_folder returns the error, on Ok it goes on with the next
\* batch (full sync) or with the folder update
SaveFinish ==
  /\ pc = "save"
  /\ batch = <<>>
  /\ folder' = [folder EXCEPT !.unread_count = UnreadCount(emails)]
  /\ IF BatchFailed(counts)
       THEN /\ pc' = "failed"
            /\ clean' = FALSE
            /\ UNCHANGED end
       ELSE /\ clean' = clean
            /\ IF mode = "full"
                 THEN /\ end' = NextEnd(end)
                      /\ pc' = "full"
                 ELSE /\ pc' = "update"
                      /\ UNCHANGED end
  /\ UNCHANGED <<srvVars, emails, settings, folder_data, stored, mode, batch, notify,
                 counts, requests, fetched, shown, pre>>
  /\ UNCHANGED <<dispatched, outsideSync>>

\* variant: the update leaves total_count out
UpdatedFolderKeepsCount(f, fd) ==
  [f EXCEPT !.uid_validity = fd.uid_validity, !.uid_next = fd.uid_next]

\* UPDATE folders SET uid_validity = ?, uid_next = ?, total_count = ? WHERE id = ?
UpdatedFolder(f, fd) ==
  [f EXCEPT !.uid_validity = fd.uid_validity, !.uid_next = fd.uid_next,
            !.total_count = fd.exists]

\* last step: update the folder row with the descriptor's values; Ok(())
UpdateFolder ==
  /\ pc = "update"
  /\ folder' = UpdatedFolder(folder, folder_data)
  /\ pc' = "done"
  /\ UNCHANGED <<srvVars, emails, settings, folder_data, stored, mode, end, batch,
                 notify, counts, requests, fetched, shown, pre, clean>>
  /\ UNCHANGED <<dispatched, outsideSync>>

\* the call is interrupted: a store or IMAP operation returns an error that
\* sync_folder propagates with `?`, or the process stops
Interrupt ==
  /\ InCall
  /\ pc' = "failed"
  /\ clean' = FALSE
  /\ UNCHANGED <<srvVars, folder, emails, settings, folder_data, stored, mode, end,
                 batch, notify, counts, requests, fetched, shown, pre>>
  /\ UNCHANGED <<dispatched, outsideSync>>

\* the caller takes the result; the locals of the call are gone
Return ==
  /\ Settled
  /\ pc' = "idle"
  /\ folder_data' = [uid_validity |-> 0, uid_next |-> 0, exists |-> 0]
  /\ stored' = [uid_validity |-> 0, uid_next |-> 0]
  /\ mode' = "none"
  /\ end' = 0
  /\ batch' = <<>>
  /\ notify' = FALSE
  /\ counts' = [success |-> 0, failure |-> 0]
  /\ requests' = <<>>
  /\ fetched' = {}
  /\ shown' = 0
  /\ dispatched' = NoDispatch
  /\ pre' = [present |-> FALSE, uid_next |-> 0, total_count |-> 0, rows |-> 0]
  /\ UNCHANGED <<srvVars, folder, emails, settings, clean>>
  /\ UNCHANGED outsideSync

(* ------------------ other writers of the same store -------------------- *)
\* index_pending_emails, one row: fetch the message with the row's remote_id
\* and store its body
IndexEmail ==
  /\ WriterTurn
  /\ \E r \in emails : \E i \in 1..Len(srvMsgs) :
       /\ r.body_text = 0
       /\ srvMsgs[i].uid = r.remote_id
       /\ emails' = (emails \ {r}) \cup {[r EXCEPT !.body_text = srvMsgs[i].mid]}
  /\ UNCHANGED <<srvVars, folder, settings, callVars, clean>>
  /\ UNCHANGED <<dispatched, outsideSync>>

\* mark_as_read, one row: add \Seen on the server (best effort), then set
\* the local flag and decrement unread_count in one transaction
MarkAsRead ==
  /\ WriterTurn
  /\ \E r \in emails :
       /\ NotLikeSeen(r.flags)
       /\ emails' = (emails \ {r}) \cup {[r EXCEPT !.flags = @ \cup {"seen"}]}
       /\ \E srvOk \in BOOLEAN :
            srvMsgs' = [i \in 1..Len(srvMsgs) |->
                          IF srvOk /\ srvMsgs[i].uid = r.remote_id
                            THEN [srvMsgs[i] EXCEPT !.flags = @ \cup {"seen"}]
                            ELSE srvMsgs[i]]
  /\ folder' = [folder EXCEPT !.unread_count = Max(0, @ - 1)]
  /\ UNCHANGED <<srvUidValidity, srvUidNext, nextMid, settings, callVars, clean>>
  /\ UNCHANGED <<dispatched, outsideSync>>

\* update_setting(key, v) for the keys the notification path depends on
UpdateSetting ==
  /\ WriterTurn
  /\ \E k \in {"notificationsEnabled", "aiSummarizationEnabled"} :
     \E v \in {"true", "false"} :
       /\ v # settings[k]
       /\ settings' = [settings EXCEPT ![k] = v]
  /\ UNCHANGED <<srvVars, folder, emails, callVars, clean>>
  /\ UNCHANGED <<dispatched, outsideSync>>

(* --------------------------- specifications ---------------------------- *)
\* the sync of one folder against a server that gains, loses, flags and
\* renumbers messages
Next ==
  \/ Deliver
  \/ Expunge
  \/ SrvAddSeen
  \/ Renumber
  \/ SelectMailbox
  \/ LookupFolder
  \/ PurgeAndDecide
  \/ FullFetch
  \/ IncrFetch
  \/ SaveRow
  \/ SaveFinish
  \/ UpdateFolder
  \/ Interrupt
  \/ Return

Spec == Init /\ [][Next]_vars

\* the sync of one folder next to the other writers of the store: the
\* indexer, mark_as_read and update_setting
NextWriters ==
  \/ Deliver
  \/ SrvAddSeen
  \/ SelectMailbox
  \/ LookupFolder
  \/ PurgeAndDecide
  \/ FullFetch
  \/ IncrFetch
  \/ SaveRow
  \/ SaveFinish
  \/ UpdateFolder
  \/ Interrupt
  \/ Return
  \/ IndexEmail
  \/ MarkAsRead
  \/ UpdateSetting

SpecWriters == Init /\ [][NextWriters]_vars

(* ======================= the engine's tasks ============================ *)
(* sync_account: one run over the account's folders                        *)
\* sync_account begins: get_account_by_id, build the backend, list folders
BeginAccount(a) == [acct |-> a, folder |-> 0, step |-> "resolve"]

\* where a sync_account stands after its current step returned Ok: the
\* folders are taken one after the other, select_mailbox then sync_folder;
\* NoRun after the last folder
AfterStep(run) ==
  IF run.step = "resolve" THEN [run EXCEPT !.folder = 1, !.step = "select"]
  ELSE IF run.step = "select" THEN [run EXCEPT !.step = "sync"]
  ELSE IF run.folder < MaxFolders
         THEN [run EXCEPT !.folder = @ + 1, !.step = "select"]
         ELSE NoRun

(* ------------------------------- time ---------------------------------- *)
\* the sleep task t waits on runs to its end; an IDLE wait lasts as long.
\* Every sleep is followed on the clock of its own task: no step of a task
\* depends on how far the sleep of another task has come.
SleepTask(t) ==
  /\ tTimer[t] > 0
  /\ tTimer' = [tTimer EXCEPT ![t] = 0]
  /\ tWaited' = [tWaited EXCEPT ![t] = IF tPc[t] = "idle" THEN @ + tTimer[t] ELSE @]
  /\ UNCHANGED <<idle_senders, tAcct, tBy, tPc, tRun, driverVars, refresh, syncVars, authVars, extraVars>>

\* the sleep of the periodic task runs to its end
SleepPeriodic ==
  /\ periodicLeft > 0
  /\ periodicSlept' = periodicSlept + periodicLeft
  /\ periodicLeft' = 0
  /\ UNCHANGED <<taskVars, startPc, pass, refresh, syncVars, authVars, extraVars>>

(* ------------- trigger_sync_for_account, start_idle_for_account --------- *)
\* the receiver of task t has fired: its sender was sent on or dropped. The
\* only sender is the one stored in idle_senders, which a later insert for
\* the same account replaces (and drops).
Cancelled(t) ==
  /\ tPc[t] \notin {"none", "presync", "register"}
  /\ idle_senders[tAcct[t]] # t

\* trigger_sync_for_account(account): spawn a task that syncs the account
\* and then runs start_idle_for_account
Trigger(a) ==
  /\ \E t \in Tasks :
       /\ t > MaxAccounts
       /\ tPc[t] = "none"
       /\ tAcct' = [tAcct EXCEPT ![t] = a]
       /\ tBy' = [tBy EXCEPT ![t] = "trigger"]
       /\ tPc' = [tPc EXCEPT ![t] = "presync"]
       /\ tRun' = [tRun EXCEPT ![t] = BeginAccount(a)]
  /\ UNCHANGED <<idle_senders, tTimer, tWaited, driverVars, refresh, syncVars, authVars, extraVars>>

\* the task's sync_account advances by one step; its error is logged and
\* the task goes on to start_idle_for_account either way
PresyncStep(t) ==
  /\ tPc[t] = "presync"
  /\ \E ok \in BOOLEAN :
       LET nxt == IF ok THEN AfterStep(tRun[t]) ELSE NoRun
       IN /\ tRun' = [tRun EXCEPT ![t] = nxt]
          /\ tPc' = [tPc EXCEPT ![t] = IF nxt = NoRun THEN "register" ELSE "presync"]
  /\ UNCHANGED <<idle_senders, tAcct, tBy, tTimer, tWaited, driverVars, refresh, syncVars, authVars, extraVars>>

\* variant: the sender is stored only when the account has none
\* (entry().or_insert), a sender already stored stays
RegisterKeepsStored(t) ==
  /\ tPc[t] = "register"
  /\ idle_senders' = [idle_senders EXCEPT ![tAcct[t]] = IF @ = 0 THEN t ELSE @]
  /\ tPc' = [tPc EXCEPT ![t] = "top"]
  /\ UNCHANGED <<tAcct, tBy, tRun, tTimer, tWaited, driverVars, refresh, syncVars, authVars, extraVars>>

\* start_idle_for_account: create the oneshot channel and store its sender
\* under the account id
Register(t) ==
  /\ tPc[t] = "register"
  /\ idle_senders' = [idle_senders EXCEPT ![tAcct[t]] = t]
  /\ tPc' = [tPc EXCEPT ![t] = "top"]
  /\ UNCHANGED <<tAcct, tBy, tRun, tTimer, tWaited, driverVars, refresh, syncVars, authVars, extraVars>>

\* task t is inside the loop of start_idle_for_account
InIdleLoop(t) == tPc[t] \in {"top", "build", "select", "sync", "idle", "backoff"}

\* top of the outer loop, receiver silent: run_idle_loop starts
LoopStart(t) ==
  /\ tPc[t] = "top"
  /\ ~Cancelled(t)
  /\ tPc' = [tPc EXCEPT ![t] = "build"]
  /\ UNCHANGED <<idle_senders, tAcct, tBy, tRun, tTimer, tWaited, driverVars, refresh, syncVars, authVars, extraVars>>

\* variant: the receiver is looked at between two run_idle_loop calls only
StopPointsTopOnly == {"top"}

\* where the task is while tokio::select! polls the receiver: at the top of
\* the outer loop and anywhere inside run_idle_loop, not in the sleep after
\* an error
StopPoints == {"top", "build", "select", "sync", "idle"}

\* the receiver branch of tokio::select! wins: run_idle_loop is dropped
\* where it stands and the task ends
Stop(t) ==
  /\ tPc[t] \in StopPoints
  /\ Cancelled(t)
  /\ tAcct' = [tAcct EXCEPT ![t] = 0]
  /\ tBy' = [tBy EXCEPT ![t] = "none"]
  /\ tPc' = [tPc EXCEPT ![t] = "none"]
  /\ tTimer' = [tTimer EXCEPT ![t] = -1]
  /\ tWaited' = [tWaited EXCEPT ![t] = 0]
  /\ UNCHANGED <<idle_senders, tRun, driverVars, refresh, syncVars, authVars, extraVars>>

(* ----------------------------- run_idle_loop --------------------------- *)
LoopAfterSkipsSync(step) ==
  IF step = "build" THEN "select"
  ELSE IF step = "select" THEN "idle"
  ELSE "select"

\* the step of run_idle_loop that follows a step that returned Ok: build
\* the context once, then forever select INBOX, sync_folder, IDLE
LoopAfter(step) ==
  IF step = "build" THEN "select"
  ELSE IF step = "select" THEN "sync"
  ELSE IF step = "sync" THEN "idle"
  ELSE "select"

TimerSleepHalfHour == 30 * 60

\* the sleep of the timer task spawned in front of an IDLE wait
TimerSleep == IDLE_REFRESH_SECS

AfterErrorNoSleep == [pc |-> "top", timer |-> -1]

\* start_idle_for_account after run_idle_loop returned Err: log, then sleep
AfterError == [pc |-> "backoff", timer |-> IDLE_RETRY_SECS]

\* the current step of task t returned Ok; in front of the IDLE wait a fresh
\* shutdown channel is made and its timer task spawned
Advance(t) ==
  LET nxt == LoopAfter(tPc[t])
  IN /\ tPc' = [tPc EXCEPT ![t] = nxt]
     /\ tTimer' = [tTimer EXCEPT ![t] = IF nxt = "idle" THEN TimerSleep ELSE -1]
     /\ tWaited' = [tWaited EXCEPT ![t] = 0]

\* the current step of task t returned Err, which run_idle_loop returns
Fail(t) ==
  /\ tPc' = [tPc EXCEPT ![t] = AfterError.pc]
  /\ tTimer' = [tTimer EXCEPT ![t] = AfterError.timer]
  /\ tWaited' = [tWaited EXCEPT ![t] = 0]

\* get_configs and BackendContextBuilder::build
BuildContext(t) ==
  /\ tPc[t] = "build"
  /\ \E ok \in BOOLEAN : IF ok THEN Advance(t) ELSE Fail(t)
  /\ UNCHANGED <<idle_senders, tAcct, tBy, tRun, driverVars, refresh, syncVars, authVars, extraVars>>

\* client.select_mailbox("INBOX")
SelectInbox(t) ==
  /\ tPc[t] = "select"
  /\ \E ok \in BOOLEAN : IF ok THEN Advance(t) ELSE Fail(t)
  /\ UNCHANGED <<idle_senders, tAcct, tBy, tRun, driverVars, refresh, syncVars, authVars, extraVars>>

\* sync_folder for INBOX returns
SyncInbox(t) ==
  /\ tPc[t] = "sync"
  /\ \E ok \in BOOLEAN : IF ok THEN Advance(t) ELSE Fail(t)
  /\ UNCHANGED <<idle_senders, tAcct, tBy, tRun, driverVars, refresh, syncVars, authVars, extraVars>>

\* client.idle returns Ok because the server announced a change
IdleNotified(t) ==
  /\ tPc[t] = "idle"
  /\ Advance(t)
  /\ UNCHANGED <<idle_senders, tAcct, tBy, tRun, driverVars, refresh, syncVars, authVars, extraVars>>

\* the timer task's sleep is over: it sends on shutdown_tx and client.idle
\* returns Ok
IdleTimeout(t) ==
  /\ tPc[t] = "idle"
  /\ tTimer[t] = 0
  /\ Advance(t)
  /\ UNCHANGED <<idle_senders, tAcct, tBy, tRun, driverVars, refresh, syncVars, authVars, extraVars>>

\* client.idle returns Err
IdleError(t) ==
  /\ tPc[t] = "idle"
  /\ Fail(t)
  /\ UNCHANGED <<idle_senders, tAcct, tBy, tRun, driverVars, refresh, syncVars, authVars, extraVars>>

\* the sleep after the error is over: next iteration of the outer loop
BackoffOver(t) ==
  /\ tPc[t] = "backoff"
  /\ tTimer[t] = 0
  /\ tPc' = [tPc EXCEPT ![t] = "top"]
  /\ tTimer' = [tTimer EXCEPT ![t] = -1]
  /\ UNCHANGED <<idle_senders, tAcct, tBy, tRun, tWaited, driverVars, refresh, syncVars, authVars, extraVars>>

\* the IDLE tasks of the accounts, spawned by trigger_sync_for_account
NextIdle ==
  \/ \E a \in Accounts : Trigger(a)
  \/ \E t \in Tasks :
       \/ PresyncStep(t)
       \/ Register(t)
       \/ LoopStart(t)
       \/ Stop(t)
       \/ BuildContext(t)
       \/ SelectInbox(t)
       \/ SyncInbox(t)
       \/ IdleNotified(t)
       \/ IdleTimeout(t)
       \/ IdleError(t)
       \/ BackoffOver(t)
       \/ SleepTask(t)

SpecIdle == Init /\ [][NextIdle]_vars

\* the same tasks on a runtime that runs every task that can run: a
\* receiver that has fired is seen by the select! that polls it, and a sleep
\* comes to its end
IdleFairness ==
  \A t \in Tasks :
    /\ WF_vars(Stop(t))
    /\ WF_vars(BackoffOver(t))
    /\ WF_vars(SleepTask(t))

SpecIdleFair == Init /\ [][NextIdle]_vars /\ IdleFairness

(* -------------------- start, sync_all_accounts ------------------------- *)
\* sync_all_accounts begins: AccountManager::new and load; when they fail
\* the pass returns the error at once
PassBegin(kind, loaded) ==
  [kind |-> kind, next |-> IF loaded THEN 1 ELSE MaxAccounts + 1, run |-> NoRun,
   stuck |-> FALSE, failed |-> ~loaded]

\* SyncEngine::start is called: the initial sync_all_accounts begins
StartEngine ==
  /\ startPc = "new"
  /\ startPc' = "initial"
  /\ \E loaded \in BOOLEAN : pass' = PassBegin("initial", loaded)
  /\ UNCHANGED <<taskVars, periodicLeft, periodicSlept, refresh, syncVars, authVars, extraVars>>

\* `for account in registry.accounts`: the sync_account of the next account
PassNextAccount ==
  /\ pass.kind # "none"
  /\ pass.run = NoRun
  /\ pass.next <= MaxAccounts
  /\ pass' = [pass EXCEPT !.run = BeginAccount(pass.next), !.next = @ + 1]
  /\ UNCHANGED <<taskVars, startPc, periodicLeft, periodicSlept, refresh, syncVars, authVars, extraVars>>

\* the running sync_account advances by one step; its error is logged and
\* the loop goes on with the next account
PassStep ==
  /\ pass.run # NoRun
  /\ ~pass.stuck
  /\ \E ok \in BOOLEAN :
       pass' = [pass EXCEPT !.run = IF ok THEN AfterStep(pass.run) ELSE NoRun]
  /\ UNCHANGED <<taskVars, startPc, periodicLeft, periodicSlept, refresh, syncVars, authVars, extraVars>>

\* the IMAP call the running sync_account waits on never returns
PassBlock ==
  /\ pass.run # NoRun
  /\ ~pass.stuck
  /\ pass' = [pass EXCEPT !.stuck = TRUE]
  /\ UNCHANGED <<taskVars, startPc, periodicLeft, periodicSlept, refresh, syncVars, authVars, extraVars>>

PeriodicAfterPassStopsOnError(failed) == IF failed THEN -1 ELSE PERIODIC_SYNC_SECS

\* the periodic task after its pass returned: the result is logged when it
\* is an error, and the loop sleeps again
PeriodicAfterPass(failed) == PERIODIC_SYNC_SECS

\* sync_all_accounts returns, to start or to the periodic task
PassReturn ==
  /\ pass.kind # "none"
  /\ pass.run = NoRun
  /\ pass.next > MaxAccounts
  /\ pass' = NoPass
  /\ IF pass.kind = "initial"
       THEN /\ startPc' = "spawn"
            /\ UNCHANGED <<periodicLeft, periodicSlept>>
       ELSE /\ periodicLeft' = PeriodicAfterPass(pass.failed)
            /\ periodicSlept' = 0
            /\ UNCHANGED startPc
  /\ UNCHANGED <<taskVars, refresh, syncVars, authVars, extraVars>>

\* start spawns the periodic task, which begins with its sleep
SpawnPeriodic ==
  /\ startPc = "spawn"
  /\ startPc' = "idles"
  /\ periodicLeft' = PERIODIC_SYNC_SECS
  /\ periodicSlept' = 0
  /\ UNCHANGED <<taskVars, pass, refresh, syncVars, authVars, extraVars>>

\* start loads the registry and spawns start_idle_for_account for every
\* account (for none when the registry cannot be loaded)
SpawnIdle ==
  /\ startPc = "idles"
  /\ startPc' = "started"
  /\ \E loaded \in BOOLEAN :
       /\ tAcct' = [t \in Tasks |-> IF loaded /\ t \in Accounts THEN t ELSE tAcct[t]]
       /\ tBy' = [t \in Tasks |-> IF loaded /\ t \in Accounts THEN "start" ELSE tBy[t]]
       /\ tPc' = [t \in Tasks |-> IF loaded /\ t \in Accounts THEN "register" ELSE tPc[t]]
  /\ UNCHANGED <<idle_senders, tRun, tTimer, tWaited, pass, periodicLeft, periodicSlept,
                 refresh, syncVars, authVars, extraVars>>

\* the periodic task wakes up and begins its sync_all_accounts
PeriodicWake ==
  /\ periodicLeft = 0
  /\ periodicLeft' = -1
  /\ \E loaded \in BOOLEAN : pass' = PassBegin("periodic", loaded)
  /\ UNCHANGED <<taskVars, startPc, periodicSlept, refresh, syncVars, authVars, extraVars>>

(* ---------------------------- refresh_folder --------------------------- *)
\* the UI calls refresh_folder for a folder of account a: folder lookup,
\* backend build and examine_mailbox come first
RefreshBegin(a) ==
  /\ refresh[a] = "none"
  /\ refresh' = [refresh EXCEPT ![a] = "examine"]
  /\ UNCHANGED <<taskVars, driverVars, syncVars, authVars, extraVars>>

\* the call advances: examine_mailbox, then sync_folder, then it returns
RefreshStep(a) ==
  /\ refresh[a] # "none"
  /\ \E ok \in BOOLEAN :
       refresh' = [refresh EXCEPT ![a] = IF ok /\ @ = "examine" THEN "sync" ELSE "none"]
  /\ UNCHANGED <<taskVars, driverVars, syncVars, authVars, extraVars>>

\* the engine from its start: start, the periodic task, the IDLE tasks start
\* spawns, and the UI's refresh_folder
NextStart ==
  \/ StartEngine
  \/ PassNextAccount
  \/ PassStep
  \/ PassBlock
  \/ PassReturn
  \/ SpawnPeriodic
  \/ SpawnIdle
  \/ SleepPeriodic
  \/ PeriodicWake
  \/ \E a \in Accounts :
       \/ RefreshBegin(a)
       \/ RefreshStep(a)
  \/ \E t \in Tasks :
       \/ Register(t)
       \/ LoopStart(t)
       \/ BuildContext(t)
       \/ SelectInbox(t)
       \/ SyncInbox(t)
       \/ IdleNotified(t)
       \/ IdleTimeout(t)
       \/ IdleError(t)
       \/ BackoffOver(t)
       \/ SleepTask(t)

SpecStart == Init /\ [][NextStart]_vars

(* =================== tokens, contexts and send_email =================== *)
\* str::contains
Contains(s, p) ==
  \E i \in 1..(Len(s) - Len(p) + 1) : SubSeq(s, i, i + Len(p) - 1) = p

\* error texts a backend build or an SMTP send fails with
ErrorTexts ==
  {"authentication failed", "401 Unauthorized", "invalid token",
   "bad credentials", "connection reset"}

\* outcome of a network call: Ok or Err(text)
Results == {"ok"} \cup ErrorTexts

\* err_str.contains("auth") || err_str.contains("Unauthorized")
\*   || err_str.contains("token") || err_str.contains("credentials")
IsAuthError(err_str) ==
  \/ Contains(err_str, "auth")
  \/ Contains(err_str, "Unauthorized")
  \/ Contains(err_str, "token")
  \/ Contains(err_str, "credentials")

\* the registry's account kinds: account 1 signs in with OAuth, the others
\* with a password
KindOf(a) == IF a = 1 THEN "Google" ELSE "ImapSmtp"

\* AccountManager::refresh_access_token for account a when the token
\* endpoint answers r: Err for ImapSmtp accounts and on an endpoint error,
\* else the new token is stored in the registry
RefreshAccessToken(a, r) ==
  IF KindOf(a) = "ImapSmtp"
    THEN [err |-> "IMAP/SMTP accounts do not support token refresh", token |-> tokenOf[a]]
  ELSE IF r # "ok"
    THEN [err |-> r, token |-> tokenOf[a]]
  ELSE [err |-> "", token |-> tokenOf[a] + 1]

\* the endpoint grants no more than MaxRefresh tokens to an account
RefreshInputs(a) == IF tokenOf[a] < MaxRefresh THEN Results ELSE ErrorTexts

(* ------------------------------ send_email ----------------------------- *)
\* where send_email goes when the first attempt of a step failed
AfterFirstError(err_str) == IF IsAuthError(err_str) THEN "refresh" ELSE "returned"

AfterRetryErrorRefreshesAgain(err_str) ==
  IF IsAuthError(err_str) THEN "refresh" ELSE "returned"

\* where send_email goes when a rebuild or a second attempt failed: `?`
AfterRetryError(err_str) == "returned"

\* the command is invoked: account and configs are read, the message is
\* written, the backend builder is made
SendEmail(a) ==
  /\ send.pc = "idle"
  /\ send' = [NoSend EXCEPT !.pc = "try", !.step = "build", !.account_id = a]
  /\ UNCHANGED <<tokenOf, gcVars, syncVars, engineVars, extraVars>>

\* backend_builder.build() returns r
SeBuild(r) ==
  /\ send.pc = "try" /\ send.step = "build"
  /\ send' = IF r = "ok"
               THEN [send EXCEPT !.tries.build = @ + 1, !.step = "send"]
               ELSE [send EXCEPT !.tries.build = @ + 1, !.err = r,
                                 !.pc = AfterFirstError(r)]
  /\ UNCHANGED <<tokenOf, gcVars, syncVars, engineVars, extraVars>>

\* manager.refresh_access_token(account.email()).await?
SeRefresh(r) ==
  /\ send.pc = "refresh"
  /\ r \in RefreshInputs(send.account_id)
  /\ LET res == RefreshAccessToken(send.account_id, r)
     IN /\ tokenOf' = [tokenOf EXCEPT ![send.account_id] = res.token]
        /\ send' = IF res.err = ""
                     THEN [send EXCEPT !.refreshes[send.step] = @ + 1,
                                       !.pc = IF send.step = "build" THEN "retry"
                                                                     ELSE "rebuild"]
                     ELSE [send EXCEPT !.refreshes[send.step] = @ + 1,
                                       !.err = res.err, !.pc = "returned"]
  /\ UNCHANGED <<gcVars, syncVars, engineVars, extraVars>>

\* the build step again: get_account_by_id, get_configs, build, each with `?`
SeBuildRetry(r) ==
  /\ send.pc = "retry" /\ send.step = "build"
  /\ send' = IF r = "ok"
               THEN [send EXCEPT !.tries.build = @ + 1, !.step = "send", !.pc = "try",
                                 !.err = ""]
               ELSE [send EXCEPT !.tries.build = @ + 1, !.err = r,
                                 !.pc = AfterRetryError(r)]
  /\ UNCHANGED <<tokenOf, gcVars, syncVars, engineVars, extraVars>>

\* backend.send_message(&message) returns r
SeSend(r) ==
  /\ send.pc = "try" /\ send.step = "send"
  /\ send' = IF r = "ok"
               THEN [send EXCEPT !.tries.send = @ + 1, !.pc = "sent"]
               ELSE [send EXCEPT !.tries.send = @ + 1, !.err = r,
                                 !.pc = AfterFirstError(r)]
  /\ UNCHANGED <<tokenOf, gcVars, syncVars, engineVars, extraVars>>

\* the backend is built anew after the refresh of the send step
SeRebuild(r) ==
  /\ send.pc = "rebuild" /\ send.step = "send"
  /\ send' = IF r = "ok"
               THEN [send EXCEPT !.pc = "retry"]
               ELSE [send EXCEPT !.err = r, !.pc = AfterRetryError(r)]
  /\ UNCHANGED <<tokenOf, gcVars, syncVars, engineVars, extraVars>>

\* backend.send_message(&message).await.map_err(..)? on the new backend
SeSendRetry(r) ==
  /\ send.pc = "retry" /\ send.step = "send"
  /\ send' = IF r = "ok"
               THEN [send EXCEPT !.tries.send = @ + 1, !.pc = "sent", !.err = ""]
               ELSE [send EXCEPT !.tries.send = @ + 1, !.err = r,
                                 !.pc = AfterRetryError(r)]
  /\ UNCHANGED <<tokenOf, gcVars, syncVars, engineVars, extraVars>>

\* the command returns to the UI (after the append to the Sent folder when
\* the message was sent)
SeReturn ==
  /\ send.pc \in {"sent", "returned"}
  /\ send' = NoSend
  /\ UNCHANGED <<tokenOf, gcVars, syncVars, engineVars, extraVars>>

NextSend ==
  \/ \E a \in Accounts : SendEmail(a)
  \/ \E r \in Results :
       \/ SeBuild(r)
       \/ SeBuildRetry(r)
       \/ SeSend(r)
       \/ SeRebuild(r)
       \/ SeSendRetry(r)
       \/ SeRefresh(r)
  \/ SeReturn

SpecSend == Init /\ [][NextSend]_vars

(* ----------------------------- get_context ----------------------------- *)
\* the cache entries of account a
Lookup(a) == {e \in contexts : e.account_id = a}

InsertKeepsOld(map, a, ctx) == map \cup {[account_id |-> a, context |-> ctx]}

\* the cache entry of account a is set to ctx; an entry the account has is
\* replaced
Insert(map, a, ctx) ==
  {e \in map : e.account_id # a} \cup {[account_id |-> a, context |-> ctx]}

\* a get_context call of another caller for account a is under way
Overlaps(c, a) ==
  \E d \in Callers \ {c} : gc[d].account_id = a /\ gc[d].pc # "idle"

\* the call of caller c returns Err(err_str)
ReturnErr(c, err_str) ==
  [NoReturn EXCEPT !.account_id = gc[c].account_id, !.err = err_str,
                   !.refreshed = gc[c].refreshed]

\* a command calls get_context(a): the cache is looked up under the mutex;
\* the entry found is returned, else the context is built outside the mutex
GetContext(c, a) ==
  /\ gc[c].pc = "idle"
  /\ calls < MaxCalls
  /\ calls' = calls + 1
  /\ IF Lookup(a) # {}
       THEN /\ ret' = [NoReturn EXCEPT !.account_id = a, !.hit = TRUE,
                         !.context = (CHOOSE e \in Lookup(a) : TRUE).context]
            /\ UNCHANGED gc
       ELSE /\ gc' = [gc EXCEPT ![c] = [NoCall EXCEPT !.pc = "build", !.account_id = a]]
            /\ UNCHANGED ret
  /\ hist' = [hist EXCEPT ![a].overlapped = @ \/ Overlaps(c, a)]
  /\ UNCHANGED <<tokenOf, contexts, built, send, syncVars, engineVars, extraVars>>

\* the context is built with the account's current token and the build
\* returns r; an authentication-class error leads to the token refresh,
\* another error is returned
GcBuild(c, r) ==
  /\ gc[c].pc = "build"
  /\ LET a == gc[c].account_id
     IN /\ gc' = [gc EXCEPT ![c] =
                    IF r = "ok"
                      THEN [@ EXCEPT !.pc = "insert",
                                     !.context = [serial |-> built[a] + 1,
                                                  token |-> tokenOf[a]]]
                    ELSE IF IsAuthError(r)
                      THEN [@ EXCEPT !.pc = "refresh", !.failed_token = tokenOf[a]]
                    ELSE NoCall]
        /\ ret' = IF r # "ok" /\ ~IsAuthError(r) THEN ReturnErr(c, r) ELSE ret
        /\ built' = [built EXCEPT ![a] = IF r = "ok" THEN @ + 1 ELSE @]
        /\ hist' = [hist EXCEPT ![a].authFailed = @ \/ (r # "ok" /\ IsAuthError(r))]
  /\ UNCHANGED <<calls, tokenOf, contexts, send, syncVars, engineVars, extraVars>>

\* the token is refreshed through the account manager; its error is returned
GcRefresh(c, r) ==
  /\ gc[c].pc = "refresh"
  /\ r \in RefreshInputs(gc[c].account_id)
  /\ LET res == RefreshAccessToken(gc[c].account_id, r)
     IN /\ tokenOf' = [tokenOf EXCEPT ![gc[c].account_id] = res.token]
        /\ gc' = [gc EXCEPT ![c] =
                    IF res.err = ""
                      THEN [@ EXCEPT !.pc = "rebuild", !.refreshed = TRUE]
                      ELSE NoCall]
        /\ ret' = IF res.err = "" THEN ret ELSE ReturnErr(c, res.err)
  /\ UNCHANGED <<calls, contexts, built, hist, send, syncVars, engineVars, extraVars>>

\* the context is built again with the refreshed token; an error is returned
GcRebuild(c, r) ==
  /\ gc[c].pc = "rebuild"
  /\ LET a == gc[c].account_id
     IN /\ gc' = [gc EXCEPT ![c] =
                    IF r = "ok"
                      THEN [@ EXCEPT !.pc = "insert",
                                     !.context = [serial |-> built[a] + 1,
                                                  token |-> tokenOf[a]]]
                      ELSE NoCall]
        /\ ret' = IF r = "ok" THEN ret ELSE ReturnErr(c, r)
        /\ built' = [built EXCEPT ![a] = IF r = "ok" THEN @ + 1 ELSE @]
  /\ UNCHANGED <<calls, tokenOf, contexts, hist, send, syncVars, engineVars, extraVars>>

\* the context built is put into the cache under the mutex and returned
GcInsert(c) ==
  /\ gc[c].pc = "insert"
  /\ contexts' = Insert(contexts, gc[c].account_id, gc[c].context)
  /\ ret' = [NoReturn EXCEPT !.account_id = gc[c].account_id,
                             !.context = gc[c].context,
                             !.refreshed = gc[c].refreshed]
  /\ gc' = [gc EXCEPT ![c] = NoCall]
  /\ UNCHANGED <<calls, tokenOf, built, hist, send, syncVars, engineVars, extraVars>>

\* outcomes taken for the network calls of get_context: Ok, an
\* authentication-class error and another error
ContextResults == {"ok", "invalid token", "connection reset"}

NextContext ==
  \E c \in Callers :
    \/ \E a \in Accounts : GetContext(c, a)
    \/ \E r \in ContextResults :
         \/ GcBuild(c, r)
         \/ GcRefresh(c, r)
         \/ GcRebuild(c, r)
    \/ GcInsert(c)

SpecContext == Init /\ [][NextContext]_vars

(* ========================== normalize_subject ========================== *)
\* the pieces subjects are drawn from: reply and forward prefixes in mixed
\* case, notification prefixes, bracketed prefixes short and long, an
\* opening bracket with no closing one, blanks and plain text
SubjectPieces ==
  {"Re:", "FWD:", "fw:", "Reminder:", " ", "[Jira]", "[", "x",
   "[a long bracketed label]"}

RECURSIVE SubjectsOf(_)
\* the subjects made of n pieces at most
SubjectsOf(n) ==
  IF n = 0 THEN {""}
  ELSE LET shorter == SubjectsOf(n - 1)
       IN shorter \cup {p \o t : p \in SubjectPieces, t \in shorter}

Subjects == SubjectsOf(MaxPieces)

UpperLetters == "ABCDEFGHIJKLMNOPQRSTUVWXYZ"
LowerLetters == "abcdefghijklmnopqrstuvwxyz"

\* char::to_lowercase, ASCII
LowerChar(c) ==
  IF \E i \in 1..Len(UpperLetters) : SubSeq(UpperLetters, i, i) = c
    THEN LET i == CHOOSE k \in 1..Len(UpperLetters) : SubSeq(UpperLetters, k, k) = c
         IN SubSeq(LowerLetters, i, i)
    ELSE c

RECURSIVE ToLowercase(_)
\* str::to_lowercase
ToLowercase(str) ==
  IF str = "" THEN ""
  ELSE LowerChar(SubSeq(str, 1, 1)) \o ToLowercase(SubSeq(str, 2, Len(str)))

RECURSIVE TrimStart(_)
TrimStart(str) ==
  IF str # "" /\ SubSeq(str, 1, 1) = " " THEN TrimStart(SubSeq(str, 2, Len(str)))
  ELSE str

RECURSIVE TrimEnd(_)
TrimEnd(str) ==
  IF str # "" /\ SubSeq(str, Len(str), Len(str)) = " "
    THEN TrimEnd(SubSeq(str, 1, Len(str) - 1))
    ELSE str

\* str::trim
Trim(str) == TrimEnd(TrimStart(str))

\* str::starts_with
StartsWith(str, p) == Len(str) >= Len(p) /\ SubSeq(str, 1, Len(p)) = p

\* str::find(']'): the byte offset of the first ']', -1 for None
FindBracket(str) ==
  IF \E i \in 1..Len(str) : SubSeq(str, i, i) = "]"
    THEN (CHOOSE i \in 1..Len(str) :
            /\ SubSeq(str, i, i) = "]"
            /\ \A j \in 1..(i - 1) : SubSeq(str, j, j) # "]") - 1
    ELSE -1

SliceFromNoTrim(str, n) == SubSeq(str, n + 1, Len(str))

\* s[n..].trim().to_string()
SliceFrom(str, n) == Trim(SubSeq(str, n + 1, Len(str)))

\* the prefixes of the else-if chain in its order, each with the number the
\* code slices by
StripPrefixes ==
  << <<"re:", 3>>, <<"fwd:", 4>>, <<"fw:", 3>>, <<"status changed:", 15>>,
     <<"new comment:", 12>>, <<"new task:", 9>>, <<"task deleted:", 13>>,
     <<"overdue:", 8>>, <<"reminder:", 9>> >>

\* one pass through the body of the loop: the new s, and whether the body
\* took a break
LoopBody(str) ==
  IF \E k \in 1..Len(StripPrefixes) : StartsWith(str, StripPrefixes[k][1])
    THEN LET k == CHOOSE k \in 1..Len(StripPrefixes) :
                    /\ StartsWith(str, StripPrefixes[k][1])
                    /\ \A j \in 1..(k - 1) : ~StartsWith(str, StripPrefixes[j][1])
         IN [s |-> SliceFrom(str, StripPrefixes[k][2]), break |-> FALSE]
  ELSE IF StartsWith(str, "[")
    THEN LET end_bracket == FindBracket(str)
             prefix == SubSeq(str, 2, end_bracket)
         IN IF end_bracket >= 0
                 /\ (Len(prefix) < 20 \/ prefix = "overdue" \/ prefix = "clickup")
              THEN [s |-> SliceFrom(str, end_bracket + 1), break |-> FALSE]
              ELSE [s |-> str, break |-> TRUE]
  ELSE [s |-> str, break |-> TRUE]

\* normalize_subject is called: let mut s = subject.trim().to_lowercase()
NsCall(subject) ==
  /\ ns.pc = "idle"
  /\ ns' = [pc |-> "loop", subject |-> subject, s |-> ToLowercase(Trim(subject)),
            round |-> 1, first |-> ""]
  /\ UNCHANGED outsideSubject

\* one iteration of the loop: it ends the loop by a break of the body or
\* when the body left s as it was
NsLoop ==
  /\ ns.pc = "loop"
  /\ LET res == LoopBody(ns.s)
     IN ns' = [ns EXCEPT !.s = res.s,
                         !.pc = IF res.break \/ res.s = ns.s THEN "returned" ELSE "loop"]
  /\ UNCHANGED outsideSubject

\* the result of the call is normalised in its turn
NsCallAgain ==
  /\ ns.pc = "returned"
  /\ ns.round = 1
  /\ ns' = [ns EXCEPT !.pc = "loop", !.first = ns.s, !.s = ToLowercase(Trim(ns.s)),
                      !.round = 2]
  /\ UNCHANGED outsideSubject

\* both results have been looked at
NsDone ==
  /\ ns.pc = "returned"
  /\ ns.round = 2
  /\ ns' = NoSubject
  /\ UNCHANGED outsideSubject

NextSubject ==
  \/ \E subject \in Subjects : NsCall(subject)
  \/ NsLoop
  \/ NsCallAgain
  \/ NsDone

SpecSubject == Init /\ [][NextSubject]_vars

(* ===================== resolve_threads, get_emails ===================== *)
ThreadMsgs == 1..MaxThread

\* the row ids of a set, in row id order (the order of a table scan)
RECURSIVE InRowOrder(_)
InRowOrder(ids) ==
  IF ids = {} THEN <<>>
  ELSE LET k == CHOOSE i \in ids : \A j \in ids : i <= j
       IN <<k>> \o InRowOrder(ids \ {k})

\* LIMIT n
Limit(seq, n) == SubSeq(seq, 1, Min(Len(seq), n))

\* thread_id = message_id
Unlinked(r) == r.thread_id = r.message_id

\* SELECT thread_id FROM emails WHERE message_id = ? LIMIT 1: the thread_id
\* found, 0 for no row
ParentThread(m) ==
  IF \E k \in 1..Len(mail) : mail[k].message_id = m
    THEN mail[CHOOSE k \in 1..Len(mail) :
                 /\ mail[k].message_id = m
                 /\ \A j \in 1..(k - 1) : mail[j].message_id # m].thread_id
    ELSE 0

\* save_envelopes inserts the row of a message not stored yet; thread_id
\* defaults to message_id, normalized_subject is never NULL, recipient_to is
\* 0 for NULL; the rows are those of one account and one sender_address
StoreEmail(m, irt, refs, nsubj, to) ==
  /\ rt.pc = "idle"
  /\ \A k \in 1..Len(mail) : mail[k].message_id # m
  /\ irt # m
  /\ \A i \in 1..Len(refs) : refs[i] # m
  /\ mail' = Append(mail, [message_id |-> m, thread_id |-> m, in_reply_to |-> irt,
                           references_header |-> refs, normalized_subject |-> nsubj,
                           recipient_to |-> to])
  /\ listing' = NoListing
  /\ UNCHANGED <<rt, outsideThreads>>

\* resolve_threads of SyncEngine (engine.rs) or of SyncWorker (worker.rs) is
\* called: tier 1 selects the rows with in_reply_to set and thread_id =
\* message_id
RtBegin(by) ==
  /\ rt.pc = "idle"
  /\ mail # <<>>
  /\ LET sel == {k \in 1..Len(mail) : mail[k].in_reply_to # 0 /\ Unlinked(mail[k])}
         rows == Limit(InRowOrder(sel), RESOLVE_BATCH)
     IN rt' = [pc |-> "tier1", by |-> by, queue |-> rows,
               sel1 |-> {rows[i] : i \in 1..Len(rows)}]
  /\ UNCHANGED <<mail, listing, outsideThreads>>

\* one iteration of the tier 1 loop: the parent is looked up by in_reply_to
\* and its thread_id written to the row
RtLinkReply ==
  /\ rt.pc = "tier1"
  /\ rt.queue # <<>>
  /\ LET id == Head(rt.queue)
         parent == ParentThread(mail[id].in_reply_to)
     IN mail' = IF parent # 0 THEN [mail EXCEPT ![id].thread_id = parent] ELSE mail
  /\ rt' = [rt EXCEPT !.queue = Tail(@)]
  /\ listing' = NoListing
  /\ UNCHANGED outsideThreads

\* tier 2 selects the rows with references_header set and thread_id =
\* message_id
RtSelectRefs ==
  /\ rt.pc = "tier1"
  /\ rt.queue = <<>>
  /\ LET sel == {k \in 1..Len(mail) :
                   mail[k].references_header # <<>> /\ Unlinked(mail[k])}
     IN rt' = [rt EXCEPT !.pc = "tier2",
                         !.queue = Limit(InRowOrder(sel), RESOLVE_BATCH)]
  /\ UNCHANGED <<mail, listing, outsideThreads>>

\* characters of a references_header other than those of a message id; a
\* message id is one element of the header, so that two ids with nothing
\* between them read as one token that is no stored message_id
Blank == 0 - 1
Comma == 0 - 2

\* refs.split(|c| c == ' ' || c == ',')
IsSeparatorBlankOnly(c) == c = Blank
IsSeparator(c) == c = Blank \/ c = Comma

\* the pieces of the split that are not empty, in the order of the header
RECURSIVE SplitRefs(_, _)
SplitRefs(h, token) ==
  IF h = <<>> THEN (IF token = <<>> THEN <<>> ELSE <<token>>)
  ELSE IF IsSeparator(Head(h))
       THEN (IF token = <<>> THEN <<>> ELSE <<token>>) \o SplitRefs(Tail(h), <<>>)
       ELSE SplitRefs(Tail(h), Append(token, Head(h)))

\* SELECT thread_id FROM emails WHERE message_id = ref_id LIMIT 1
TokenThread(token) == IF Len(token) = 1 THEN ParentThread(token[1]) ELSE 0

\* ref_ids.iter().rev() up to the first that is stored: the thread_id of the
\* last reference that is stored, 0 for none
RECURSIVE LastKnownRef(_, _)
LastKnownRef(ref_ids, i) ==
  IF i = 0 THEN 0
  ELSE IF TokenThread(ref_ids[i]) # 0 THEN TokenThread(ref_ids[i])
  ELSE LastKnownRef(ref_ids, i - 1)

\* one iteration of the tier 2 loop: the references are tried from the last
\* to the first
RtLinkRefs ==
  /\ rt.pc = "tier2"
  /\ rt.queue # <<>>
  /\ LET id == Head(rt.queue)
         ref_ids == SplitRefs(mail[id].references_header, <<>>)
         parent == LastKnownRef(ref_ids, Len(ref_ids))
     IN mail' = IF parent # 0 THEN [mail EXCEPT ![id].thread_id = parent] ELSE mail
  /\ rt' = [rt EXCEPT !.queue = Tail(@)]
  /\ listing' = NoListing
  /\ UNCHANGED outsideThreads

\* the WHERE of the subquery of tier 3: e2 is of the group of row r; only
\* the worker's resolve_threads compares COALESCE(recipient_to, '')
SameGroup(by, r, e2) ==
  /\ e2.normalized_subject = r.normalized_subject
  /\ e2.normalized_subject # ""
  /\ by = "worker" => e2.recipient_to = r.recipient_to

\* MIN(e2.message_id) over the group of row r
MinOfGroup(by, r) ==
  LET ms == {mail[k].message_id : k \in {j \in 1..Len(mail) : SameGroup(by, r, mail[j])}}
  IN CHOOSE m \in ms : \A n \in ms : m <= n

\* tier 3: one UPDATE that sets the thread_id of the unlinked rows with a
\* subject to the least message_id of their subject and sender; then
\* resolve_threads returns
RtBulkBySubject ==
  /\ rt.pc = "tier2"
  /\ rt.queue = <<>>
  /\ LET ids == Limit(InRowOrder({k \in 1..Len(mail) : Unlinked(mail[k])}),
                      RESOLVE_BATCH)
         inIds(k) == \E i \in 1..Len(ids) : ids[i] = k
     IN mail' = [k \in 1..Len(mail) |->
                   IF Unlinked(mail[k]) /\ mail[k].normalized_subject # "" /\ inIds(k)
                     THEN [mail[k] EXCEPT
                             !.thread_id = MinOfGroup(rt.by, mail[k])]
                     ELSE mail[k]]
  /\ rt' = [rt EXCEPT !.pc = "returned"]
  /\ listing' = NoListing
  /\ UNCHANGED outsideThreads

\* a resolve_threads pass over the rows as they are would write a thread_id
\* other than the one stored to some row: in tier 1, in tier 2 or in tier 3
PassWouldChange(by) ==
  \E k \in 1..Len(mail) :
    /\ Unlinked(mail[k])
    /\ \/ /\ mail[k].in_reply_to # 0
          /\ ParentThread(mail[k].in_reply_to) \notin {0, mail[k].thread_id}
       \/ /\ mail[k].references_header # <<>>
          /\ LET ref_ids == SplitRefs(mail[k].references_header, <<>>)
             IN LastKnownRef(ref_ids, Len(ref_ids)) \notin {0, mail[k].thread_id}
       \/ /\ mail[k].normalized_subject # ""
          /\ MinOfGroup(by, mail[k]) # mail[k].thread_id

\* the worker goes to sleep until its next pass
RtReturn ==
  /\ rt.pc = "returned"
  /\ rt' = NoResolve
  /\ UNCHANGED <<mail, listing, outsideThreads>>

\* the PARTITION BY key of latest_threads: COALESCE(NULLIF(thread_id,
\* message_id), normalized_subject || '-' || sender_address || '-' ||
\* COALESCE(recipient_to, ''), message_id); the second term is not NULL for
\* a row save_envelopes wrote
ThreadKey(r) ==
  IF r.thread_id # r.message_id
    THEN [of |-> "id", id |-> r.thread_id, subject |-> "", to |-> 0]
    ELSE [of |-> "subject", id |-> 0, subject |-> r.normalized_subject,
          to |-> r.recipient_to]

\* get_emails(view = primary): one entry per partition, the row that comes
\* first by date and id, with the partition's COUNT(*) as thread_count
GetEmails ==
  /\ rt.pc \in {"idle", "returned"}
  /\ mail # <<>>
  /\ ~listing.valid
  /\ LET part(k) == {j \in 1..Len(mail) : ThreadKey(mail[j]) = ThreadKey(mail[k])}
         first(k) == \A j \in part(k) : j <= k
     IN listing' = [valid |-> TRUE,
                    entries |-> {[id |-> k, message_id |-> mail[k].message_id,
                                  thread_id |-> mail[k].thread_id,
                                  thread_count |-> Cardinality(part(k))] :
                                 k \in {j \in 1..Len(mail) : first(j)}}]
  /\ UNCHANGED <<mail, rt, outsideThreads>>

\* the references_header values taken: NULL or one message id
RefsValues == {<<>>} \cup {<<m>> : m \in ThreadMsgs}

NextThreads ==
  \/ \E m \in ThreadMsgs, irt \in {0} \cup ThreadMsgs, refs \in RefsValues,
        nsubj \in {"", "x"} : StoreEmail(m, irt, refs, nsubj, 0)
  \/ RtBegin("engine")
  \/ RtLinkReply
  \/ RtSelectRefs
  \/ RtLinkRefs
  \/ RtBulkBySubject
  \/ RtReturn
  \/ GetEmails

SpecThreads == Init /\ [][NextThreads]_vars

\* references_header values of several ids: two ids with a blank or with a
\* comma and a blank between them, and a header that is one blank
RefsHeaders ==
  RefsValues \cup {<<Blank>>}
    \cup {<<a, Blank, b>> : a, b \in ThreadMsgs}
    \cup {<<a, Comma, Blank, b>> : a, b \in ThreadMsgs}

\* the rows of messages that carry a References header, with no subject, in
\* reply to the first message or to none
NextRefs ==
  \/ \E m \in ThreadMsgs, irt \in {0, 1}, refs \in RefsHeaders :
        StoreEmail(m, irt, refs, "", 0)
  \/ RtBegin("engine")
  \/ RtLinkReply
  \/ RtSelectRefs
  \/ RtLinkRefs
  \/ RtBulkBySubject
  \/ RtReturn

SpecRefs == Init /\ [][NextRefs]_vars

\* the rows of messages to one recipient or another, resolved by the engine
\* or by the worker
NextGroups ==
  \/ \E m \in ThreadMsgs, irt \in {0, 1}, refs \in {<<>>, <<1>>}, nsubj \in {"", "x"},
        to \in {0, 1} : StoreEmail(m, irt, refs, nsubj, to)
  \/ \E by \in {"engine", "worker"} : RtBegin(by)
  \/ RtLinkReply
  \/ RtSelectRefs
  \/ RtLinkRefs
  \/ RtBulkBySubject
  \/ RtReturn

SpecGroups == Init /\ [][NextGroups]_vars

(* ========================= add_account, load ========================= *)
Emails == 1..MaxEmails
Names == {"n1", "n2"}
Secrets == 1..2

\* SELECT id, name FROM accounts WHERE email = ?
AccountRow(email) == {r \in accounts_table : r.email = email}

\* load(): the default registry when the file does not exist; else the saved
\* accounts, id and name of each taken from its accounts row when there is one
Load ==
  IF ~accounts_file.exists THEN <<>>
  ELSE [i \in 1..Len(accounts_file.accounts) |->
          LET account == accounts_file.accounts[i]
          IN IF AccountRow(account.email) # {}
               THEN LET row == CHOOSE r \in AccountRow(account.email) : TRUE
                    IN [account EXCEPT !.id = row.id, !.name = row.name]
               ELSE account]

\* the id SQLite gives the next inserted row
NextRowId ==
  IF accounts_table = {} THEN 1
  ELSE 1 + (CHOOSE n \in {r.id : r \in accounts_table} :
              \A r \in accounts_table : r.id <= n)

\* INSERT INTO accounts ... ON CONFLICT(email) DO UPDATE SET name ...
\* RETURNING id: the table after the statement and the id returned
InsertAccount(email, name) ==
  IF AccountRow(email) # {}
    THEN LET row == CHOOSE r \in AccountRow(email) : TRUE
         IN [table |-> (accounts_table \ {row}) \cup {[row EXCEPT !.name = name]},
             id |-> row.id]
    ELSE [table |-> accounts_table \cup {[id |-> NextRowId, email |-> email, name |-> name]},
          id |-> NextRowId]

\* registry.accounts.retain(|a| a.email() != account.email())
RetainKeepsAll(accounts, email) == accounts
Retain(accounts, email) == SelectSeq(accounts, LAMBDA a : a.email # email)

\* add_account(account): step 1, the row is written and its id set on the
\* account
AddAccount(email, name, token) ==
  /\ aa.pc = "idle"
  /\ LET up == InsertAccount(email, name)
     IN /\ accounts_table' = up.table
        /\ aa' = [pc |-> "load", registry |-> <<>>, result |-> "",
                  account |-> [email |-> email, id |-> up.id, name |-> name,
                               token |-> token]]
  /\ UNCHANGED <<accounts_file, added, outsideManager>>

\* step 2 begins: self.load(); a file that cannot be read or decrypted is
\* an error add_account returns
AaLoad(ok) ==
  /\ aa.pc = "load"
  /\ ok \/ accounts_file.exists
  /\ aa' = IF ok THEN [aa EXCEPT !.pc = "save", !.registry = Load]
           ELSE [aa EXCEPT !.pc = "returned", !.result = "Err"]
  /\ UNCHANGED <<accounts_table, accounts_file, added, outsideManager>>

\* retain, push and save; the result of save is the result of add_account
AaSave(ok) ==
  /\ aa.pc = "save"
  /\ LET registry == Append(Retain(aa.registry, aa.account.email), aa.account)
     IN IF ok
          THEN /\ accounts_file' = [exists |-> TRUE, accounts |-> registry]
               /\ added' = [e \in DOMAIN added \cup {aa.account.email} |->
                              IF e = aa.account.email THEN aa.account ELSE added[e]]
               /\ aa' = [aa EXCEPT !.pc = "returned", !.result = "Ok"]
          ELSE /\ aa' = [aa EXCEPT !.pc = "returned", !.result = "Err"]
               /\ UNCHANGED <<accounts_file, added>>
  /\ UNCHANGED <<accounts_table, outsideManager>>

\* the caller has the result
AaReturn ==
  /\ aa.pc = "returned"
  /\ aa' = NoAdd
  /\ UNCHANGED <<accounts_table, accounts_file, added, outsideManager>>

NextManager ==
  \/ \E email \in Emails, name \in Names, token \in Secrets :
       AddAccount(email, name, token)
  \/ \E ok \in BOOLEAN : AaLoad(ok)
  \/ \E ok \in BOOLEAN : AaSave(ok)
  \/ AaReturn

SpecManager == Init /\ [][NextManager]_vars

(* ================== the batches of a full sync ================== *)
\* sync_folder takes the full-sync branch with total_count = n
FullSyncBegin(n) ==
  /\ fs.pc = "idle"
  /\ fs' = [NoFullSync EXCEPT !.pc = "loop", !.exists = n, !.end = AsU32(n)]
  /\ UNCHANGED outsideBatches

\* `while end > 0`: the next range is computed and requested
FsRequest ==
  /\ fs.pc = "loop"
  /\ fs.end > 0
  /\ fs' = [fs EXCEPT !.pc = "fetching",
                      !.ranges = Append(@, [start |-> NonZeroOr1(BatchStart(fs.end)),
                                            last |-> NonZeroOr1(fs.end),
                                            saved |-> FALSE])]
  /\ UNCHANGED outsideBatches

\* `while end > 0` is false: on to the folder update
FsLoopEnd ==
  /\ fs.pc = "loop"
  /\ fs.end = 0
  /\ fs' = [fs EXCEPT !.pc = "update"]
  /\ UNCHANGED outsideBatches

\* fetch_envelopes_by_sequence returns envelopes, none (break), or an error
FsFetched(got) ==
  /\ fs.pc = "fetching"
  /\ fs' = CASE got = "envelopes" -> [fs EXCEPT !.pc = "saving"]
             [] got = "none" -> [fs EXCEPT !.pc = "update", !.empty = TRUE]
             [] OTHER -> [fs EXCEPT !.pc = "returned", !.result = "Err"]
  /\ UNCHANGED outsideBatches

\* save_envelopes returns: on Ok `end` moves below the batch, on Err
\* sync_folder returns the error
FsSaved(ok) ==
  /\ fs.pc = "saving"
  /\ fs' = IF ok
             THEN [fs EXCEPT !.pc = "loop", !.end = NextEnd(fs.end),
                             !.ranges[Len(fs.ranges)].saved = TRUE]
             ELSE [fs EXCEPT !.pc = "returned", !.result = "Err"]
  /\ UNCHANGED outsideBatches

\* the folder row is updated; Ok(())
FsUpdate ==
  /\ fs.pc = "update"
  /\ fs' = [fs EXCEPT !.pc = "returned", !.result = "Ok"]
  /\ UNCHANGED outsideBatches

\* the caller has the result
FsReturn ==
  /\ fs.pc = "returned"
  /\ fs' = NoFullSync
  /\ UNCHANGED outsideBatches

NextBatches ==
  \/ \E n \in 0..MaxExists : FullSyncBegin(n)
  \/ FsRequest
  \/ FsLoopEnd
  \/ \E got \in {"envelopes", "none", "error"} : FsFetched(got)
  \/ \E ok \in BOOLEAN : FsSaved(ok)
  \/ FsUpdate
  \/ FsReturn

SpecBatches == Init /\ [][NextBatches]_vars

(* ================= sync_account, folder by folder ================= *)
\* remote folders: name and the kind the backend reports (is_inbox, is_sent)
RemoteFolders ==
  {[name |-> "INBOX", kind |-> "inbox"],
   [name |-> "[Gmail]/Sent Mail", kind |-> "sent"],
   [name |-> "[Gmail]/Spam", kind |-> ""],
   [name |-> "Junk E-mail", kind |-> ""],
   [name |-> "[Gmail]/Trash", kind |-> ""],
   [name |-> "[Gmail]/All Mail", kind |-> ""],
   [name |-> "Notes", kind |-> ""]}

\* the listings list_folders returns: up to n folders, no folder twice
RECURSIVE ListingsOf(_)
ListingsOf(n) ==
  IF n = 0 THEN {<<>>}
  ELSE LET shorter == ListingsOf(n - 1)
       IN shorter \cup {Append(l, f) : l \in shorter, f \in RemoteFolders}
Listings ==
  {l \in ListingsOf(MaxListing) : \A i, j \in 1..Len(l) : l[i] = l[j] => i = j}

\* the role of a folder, "" for `continue`
RoleOf(f) ==
  LET name_lower == ToLowercase(f.name)
  IN IF f.kind = "inbox" THEN "inbox"
     ELSE IF f.kind = "sent" THEN "sent"
     ELSE IF Contains(name_lower, "spam") \/ Contains(name_lower, "junk") THEN "spam"
     ELSE ""

\* variant: the error of a folder is skipped and the loop goes on
OnFolderErrorGoesOn(call) == [call EXCEPT !.pc = "folder", !.i = @ + 1]

\* `?` on select_mailbox and on sync_folder: sync_account returns the error
OnFolderError(call) == [call EXCEPT !.pc = "returned", !.result = "Err"]

\* sync_account is called
SyncAccount ==
  /\ sa.pc = "idle"
  /\ Len(passLog) < MaxPasses
  /\ sa' = [NoSyncAccount EXCEPT !.pc = "list"]
  /\ UNCHANGED <<folder_rows, passLog, outsideAccount>>

\* get_account_by_id, get_configs, build and list_folders: the listing, or
\* an error that sync_account returns
SaListed(ok, folders) ==
  /\ sa.pc = "list"
  /\ sa' = IF ok THEN [sa EXCEPT !.pc = "folder", !.folders = folders, !.i = 1]
           ELSE [sa EXCEPT !.pc = "returned", !.result = "Err"]
  /\ UNCHANGED <<folder_rows, passLog, outsideAccount>>

\* `for folder in folders`: the role is worked out; a folder without one is
\* skipped; after the last folder Ok(())
SaFolder ==
  /\ sa.pc = "folder"
  /\ sa' = IF sa.i > Len(sa.folders)
             THEN [sa EXCEPT !.pc = "returned", !.result = "Ok"]
           ELSE IF RoleOf(sa.folders[sa.i]) = ""
             THEN [sa EXCEPT !.i = @ + 1]
           ELSE [sa EXCEPT !.pc = "select", !.role = RoleOf(sa.folders[sa.i])]
  /\ UNCHANGED <<folder_rows, passLog, outsideAccount>>

\* select_mailbox(folder.name) returns
SaSelected(ok) ==
  /\ sa.pc = "select"
  /\ LET called == [sa EXCEPT !.selected = Append(@, sa.folders[sa.i].name)]
     IN sa' = IF ok THEN [called EXCEPT !.pc = "sync"] ELSE OnFolderError(called)
  /\ UNCHANGED <<folder_rows, passLog, outsideAccount>>

\* sync_folder returns; its first statement gets or inserts the folders
\* row, so a call that fails later has made the row as well
SaSynced(ok, rowMade) ==
  /\ sa.pc = "sync"
  /\ ok => rowMade
  /\ folder_rows' = IF rowMade THEN folder_rows \cup {sa.folders[sa.i].name}
                    ELSE folder_rows
  /\ sa' = IF ok THEN [sa EXCEPT !.pc = "folder", !.i = @ + 1,
                                 !.synced = @ \cup {sa.folders[sa.i].name}]
           ELSE OnFolderError(sa)
  /\ UNCHANGED <<passLog, outsideAccount>>

\* the recognized folders of the call's listing that it did not sync
Unsynced(call) ==
  {j \in 1..Len(call.folders) :
     RoleOf(call.folders[j]) # "" /\ call.folders[j].name \notin call.synced}

\* the caller logs an error; nothing of the call is kept
SaReturn ==
  /\ sa.pc = "returned"
  /\ passLog' = Append(passLog, [result |-> sa.result,
                                 unsynced |-> Cardinality(Unsynced(sa))])
  /\ sa' = NoSyncAccount
  /\ UNCHANGED <<folder_rows, outsideAccount>>

NextAccount ==
  \/ SyncAccount
  \/ \E ok \in BOOLEAN, folders \in Listings : SaListed(ok, folders)
  \/ SaFolder
  \/ \E ok \in BOOLEAN : SaSelected(ok)
  \/ \E ok, rowMade \in BOOLEAN : SaSynced(ok, rowMade)
  \/ SaReturn

SpecAccount == Init /\ [][NextAccount]_vars

(* ----------------------------- sync worker ---------------------------- *)
\* SyncWorker::start spawns one task that loops over: an indexing pass, a
\* sleep, and the spawning of three tasks (thread resolution, proactive
\* enrichment, proactive summarization), each of which runs one pass, sleeps
\* its delay and ends.  The loop awaits none of them.
Kinds == {"threads", "enrichment", "summarization"}

\* seconds a spawned task of kind k sleeps after its pass
CycleOf(s, k) == IF k = "threads" THEN s.nap ELSE WORKER_CYCLE_SECS

\* d seconds go by: for the loop and for every spawned task
Elapse(d) ==
  /\ spawned' = [i \in 1..Len(spawned) |->
        [spawned[i] EXCEPT !.age = Min(WORKER_CYCLE_SECS, @ + d)]]

Later(w, d) == [w EXCEPT !.since = Min(WORKER_CYCLE_SECS, @ + d)]

\* rows left to a pass after one row, whose fetch or AI call answered (ok) or
\* failed: a failure is logged and the `for` goes on with the next row
AfterItemStopsOnError(left, ok) == IF ok THEN left - 1 ELSE 0
AfterItem(left, ok) == left - 1

\* start: the loop task is spawned and begins with an indexing pass
WorkerStart ==
  /\ wk.pc = "off"
  /\ wk' = [wk EXCEPT !.pc = "index", !.since = WORKER_CYCLE_SECS]
  /\ UNCHANGED <<spawned, outsideWorkers>>

\* index_pending_emails: the SELECT of the rows without body_text; an error
\* of the query ends the pass with Err, which the loop logs
IndexQuery(ok, n) ==
  /\ wk.pc = "index"
  /\ wk' = IF ok THEN [wk EXCEPT !.pc = "items", !.left = n, !.failed = 0]
                 ELSE [wk EXCEPT !.pc = "sleep", !.result = "err", !.left = 0,
                                 !.failed = 0]
  /\ UNCHANGED <<spawned, outsideWorkers>>

\* get_backend fails for the account of the next m rows: logged, and the
\* loop over the accounts goes on with the next account
IndexSkipAccount(m) ==
  /\ wk.pc = "items"
  /\ m \in 1..wk.left
  /\ wk' = [wk EXCEPT !.left = @ - m]
  /\ UNCHANGED <<spawned, outsideWorkers>>

\* one row of the pass: get_messages answers or fails; a failure is logged
\* and the loop over the rows goes on
IndexItem(ok) ==
  /\ wk.pc = "items"
  /\ wk.left > 0
  /\ wk' = [wk EXCEPT !.left = AfterItem(@, ok),
                       !.failed = @ + (IF ok THEN 0 ELSE 1)]
  /\ UNCHANGED <<spawned, outsideWorkers>>

\* the pass returns Ok after its last row, d seconds after it began
IndexReturn(d) ==
  /\ wk.pc = "items"
  /\ wk.left = 0
  /\ wk' = Later([wk EXCEPT !.pc = "sleep", !.result = "ok"], d)
  /\ Elapse(d)
  /\ UNCHANGED outsideWorkers

\* the sleep of the loop after the indexing pass is over
IndexSleepOver ==
  /\ wk.pc = "sleep"
  /\ wk' = Later([wk EXCEPT !.pc = "spawn", !.failed = 0], WORKER_INDEX_SECS)
  /\ Elapse(WORKER_INDEX_SECS)
  /\ UNCHANGED outsideWorkers

\* the three tasks of this iteration are spawned and the loop goes back to
\* its indexing pass; nap is the sleep_time the thread resolution task
\* derives from the backlog
SpawnPasses(nap) ==
  /\ wk.pc = "spawn"
  /\ Len(spawned) < MaxSpawns
  /\ spawned' = Append(spawned, [age |-> 0, early |-> wk.since < WORKER_CYCLE_SECS,
                                 nap |-> nap, todo |-> -1,
                                 ph |-> [k \in Kinds |-> "run"]])
  /\ wk' = [wk EXCEPT !.pc = "index", !.since = 0]
  /\ UNCHANGED outsideWorkers

\* the pass of a spawned thread resolution or enrichment task returns; an
\* Err is logged; the task goes to its sleep
PassEnds(i, k, ok) ==
  /\ i \in 1..Len(spawned)
  /\ k # "summarization"
  /\ spawned[i].ph[k] = "run"
  /\ spawned' = [spawned EXCEPT ![i].ph[k] = "sleep"]
  /\ UNCHANGED <<wk, outsideWorkers>>

\* proactive_summarization of a spawned task, up to its SELECT: it returns
\* Ok at once when the settings do not allow it (n = 0), Err when the SELECT
\* fails, and otherwise goes through the n rows selected
SumQuery(i, ok, n) ==
  /\ i \in 1..Len(spawned)
  /\ spawned[i].ph["summarization"] = "run"
  /\ spawned[i].todo = -1
  /\ spawned' = IF ok THEN [spawned EXCEPT ![i].todo = n]
                      ELSE [spawned EXCEPT ![i].ph["summarization"] = "failed"]
  /\ UNCHANGED <<wk, outsideWorkers>>

\* one row of the pass: the AI call answers and the summary is written, or
\* it fails and the failure is logged; the loop over the rows goes on
SumItem(i, ok) ==
  /\ i \in 1..Len(spawned)
  /\ spawned[i].ph["summarization"] = "run"
  /\ spawned[i].todo > 0
  /\ spawned' = [spawned EXCEPT ![i].todo = AfterItem(@, ok)]
  /\ UNCHANGED <<wk, outsideWorkers>>

\* the pass returns Ok after its last row and the task goes to its sleep
SumReturn(i) ==
  /\ i \in 1..Len(spawned)
  /\ spawned[i].ph["summarization"] = "run"
  /\ spawned[i].todo = 0
  /\ spawned' = [spawned EXCEPT ![i].ph["summarization"] = "sleep"]
  /\ UNCHANGED <<wk, outsideWorkers>>

AllDone(s) == \A k \in Kinds : s.ph[k] = "done"

Alive(tasks) == SelectSeq(tasks, LAMBDA s : ~AllDone(s))

\* the sleep of a spawned task is over and the task ends
TaskSleepOver(i, k) ==
  /\ i \in 1..Len(spawned)
  /\ spawned[i].ph[k] \in {"sleep", "failed"}
  /\ spawned[i].age >= CycleOf(spawned[i], k)
  /\ spawned' = Alive([spawned EXCEPT ![i].ph[k] = "done"])
  /\ UNCHANGED <<wk, outsideWorkers>>

\* passes of kind k that are running or sleeping their delay
InProgress(k) == {i \in 1..Len(spawned) : spawned[i].ph[k] # "done"}

NextWorkers ==
  \/ WorkerStart
  \/ \E ok \in BOOLEAN, n \in 0..MaxItems : IndexQuery(ok, n)
  \/ \E m \in 1..MaxItems : IndexSkipAccount(m)
  \/ \E ok \in BOOLEAN : IndexItem(ok)
  \/ \E d \in {0, WORKER_CYCLE_SECS} : IndexReturn(d)
  \/ IndexSleepOver
  \/ \E nap \in {THREADS_BUSY_SECS, THREADS_CALM_SECS} : SpawnPasses(nap)
  \/ \E i \in 1..MaxSpawns, k \in Kinds, ok \in BOOLEAN : PassEnds(i, k, ok)
  \/ \E i \in 1..MaxSpawns, ok \in BOOLEAN, n \in 0..MaxItems : SumQuery(i, ok, n)
  \/ \E i \in 1..MaxSpawns, ok \in BOOLEAN : SumItem(i, ok)
  \/ \E i \in 1..MaxSpawns : SumReturn(i)
  \/ \E i \in 1..MaxSpawns, k \in Kinds : TaskSleepOver(i, k)

SpecWorkers == Init /\ [][NextWorkers]_vars

(* ------------------------------ indexer ------------------------------- *)
\* index_pending_emails over a store in which mail arrives.  A group stands
\* for rows of one folder that arrived together and that the server answers
\* alike: with a message that has a text part ("text"), with a message that
\* has none ("notext"), or with an error every time ("failing").
RowKinds == {"text", "notext", "failing"}
Roles == {"inbox", "spam", "trash"}
GroupSizes == {1, INDEX_BATCH}

\* save_envelopes stores n rows of a folder; body_text is NULL until indexed
Arrive(kind, role, n) ==
  /\ Len(backlog) < MaxGroups
  /\ backlog' = Append(backlog, [kind |-> kind, role |-> role, n |-> n, pending |-> n])
  /\ UNCHANGED <<ix, outsideIndexer>>

\* WHERE e.body_text IS NULL AND f.role != 'trash' AND f.role != 'spam'
Selectable(g) == g.pending > 0 /\ g.role # "trash" /\ g.role # "spam"

\* ORDER BY e.date DESC LIMIT room, from group i downwards: the groups the
\* selected rows are taken from and how many from each
RECURSIVE Newest(_, _)
Newest(i, room) ==
  IF i = 0 \/ room = 0 THEN <<>>
  ELSE IF Selectable(backlog[i])
       THEN <<[g |-> i, n |-> Min(room, backlog[i].pending)]>>
            \o Newest(i - 1, room - Min(room, backlog[i].pending))
       ELSE Newest(i - 1, room)

\* a pass begins: the SELECT; its error ends the pass
IxSelect(ok) ==
  /\ ix.pc = "idle"
  /\ ix' = IF ok THEN [ix EXCEPT !.pc = "rows",
                                 !.pending_emails = Newest(Len(backlog), INDEX_BATCH)]
                 ELSE ix
  /\ UNCHANGED <<backlog, outsideIndexer>>

\* body_text the UPDATE of a fetched row binds: NULL again unless the
\* message has a text part; a row whose fetch fails gets no UPDATE
Filled(kind) == kind = "text"

\* one selected row: get_messages, and on Ok the UPDATE of the row
IxRow ==
  /\ ix.pc = "rows"
  /\ ix.pending_emails # <<>>
  /\ LET t == Head(ix.pending_emails)
         rest == IF t.n = 1 THEN Tail(ix.pending_emails)
                 ELSE <<[t EXCEPT !.n = @ - 1]>> \o Tail(ix.pending_emails)
     IN /\ ix' = [ix EXCEPT !.pending_emails = rest]
        /\ backlog' = IF Filled(backlog[t.g].kind)
                     THEN [backlog EXCEPT ![t.g].pending = @ - 1]
                     ELSE backlog
  /\ UNCHANGED outsideIndexer

\* the pass returns Ok and the loop that called it sleeps and calls it again
IxReturn ==
  /\ ix.pc = "rows"
  /\ ix.pending_emails = <<>>
  /\ ix' = [ix EXCEPT !.pc = "idle"]
  /\ UNCHANGED <<backlog, outsideIndexer>>

IxStep == (\E ok \in BOOLEAN : IxSelect(ok)) \/ IxRow \/ IxReturn

NextIndexer ==
  \/ \E kind \in RowKinds, role \in Roles, n \in GroupSizes : Arrive(kind, role, n)
  \/ \E ok \in BOOLEAN : IxSelect(ok)
  \/ IxRow
  \/ IxReturn

SpecIndexer == Init /\ [][NextIndexer]_vars

\* the loops of SyncEngine::start and SyncWorker::start call the pass again
\* and again, the database answers the SELECT in the end, and a pass that has
\* begun runs to its end
IndexerFairness ==
  /\ WF_vars(IxSelect(TRUE))
  /\ WF_vars(IxRow)
  /\ WF_vars(IxReturn)

SpecIndexerFair == Init /\ [][NextIndexer]_vars /\ IndexerFairness

(* ----------------------- proactive summarization ---------------------- *)
\* proactive_summarization (sync/worker.rs) step by step, next to the
\* commands that write the same rows and settings.  The rows are newer
\* than the date bound of the SELECT.
SettingValues == {"none", "true", "false", "TRUE"}
SummaryRows == 1..MaxRows

\* fetch_one(..).unwrap_or(("false",)): the value of the row, "false"
\* when there is none
ReadSetting(v) == IF v = "none" THEN "false" ELSE v

\* update_setting(key, value)
SetAi(key, value) ==
  /\ value # "none"
  /\ ai_settings' = [ai_settings EXCEPT ![key] = value]
  /\ UNCHANGED <<summaries, ps, outsideSummaries>>

\* index_pending_emails has fetched the body of a row
BodyIndexed(id) ==
  /\ ~summaries[id].body_text
  /\ summaries[id].role # "trash"
  /\ summaries' = [summaries EXCEPT ![id].body_text = TRUE]
  /\ UNCHANGED <<ai_settings, ps, outsideSummaries>>

\* move_to_trash, archive_emails, move_to_inbox: UPDATE emails SET
\* folder_id = ? WHERE id = ?
MoveTo(id, role) ==
  /\ summaries[id].role # role
  /\ summaries' = [summaries EXCEPT ![id].role = role]
  /\ UNCHANGED <<ai_settings, ps, outsideSummaries>>

\* regenerate_summary: the summary of a row with body_text is written anew
RegenerateSummary(id) ==
  /\ summaries[id].body_text
  /\ summaries' = [summaries EXCEPT ![id].summary = 2]
  /\ UNCHANGED <<ai_settings, ps, outsideSummaries>>

\* the pass begins: both settings are read
PsBegin ==
  /\ ps.pc = "idle"
  /\ ps' = [NoSummarization EXCEPT
              !.pc = "gate",
              !.ai_enabled = ReadSetting(ai_settings.aiEnabled),
              !.ai_summarization_enabled =
                 ReadSetting(ai_settings.aiSummarizationEnabled)]
  /\ UNCHANGED <<ai_settings, summaries, outsideSummaries>>

\* WHERE e.summary IS NULL AND e.body_text IS NOT NULL AND f.role != 'spam'
\* AND f.role != 'trash'
Due(r) == r.summary = 0 /\ r.body_text /\ r.role # "spam" /\ r.role # "trash"

\* if ai_enabled.0 != "true" || ai_summarization_enabled.0 != "true" the
\* pass returns Ok; else the SELECT, whose error ends the pass; an empty
\* result returns Ok as well
PsSelect(ok) ==
  /\ ps.pc = "gate"
  /\ LET sel == {id \in SummaryRows : Due(summaries[id])}
     IN ps' = IF ps.ai_enabled # "true" \/ ps.ai_summarization_enabled # "true"
                   \/ ~ok \/ sel = {}
                THEN NoSummarization
                ELSE [ps EXCEPT !.pc = "call", !.selected = sel,
                                !.pending_summaries =
                                   Limit(InRowOrder(sel), SUMMARY_BATCH)]
  /\ UNCHANGED <<ai_settings, summaries, outsideSummaries>>

\* summarize_email_with_ai for the next row: Ok leads to the UPDATE, Err is
\* logged and the loop goes on
PsCall(ok) ==
  /\ ps.pc = "call"
  /\ ps.pending_summaries # <<>>
  /\ ps' = IF ok THEN [ps EXCEPT !.pc = "write"]
                 ELSE [ps EXCEPT !.pending_summaries = Tail(@)]
  /\ UNCHANGED <<ai_settings, summaries, outsideSummaries>>

\* UPDATE emails SET summary = ? WHERE id = ?
PsWrite ==
  /\ ps.pc = "write"
  /\ summaries' = [summaries EXCEPT ![Head(ps.pending_summaries)].summary = 1]
  /\ ps' = [ps EXCEPT !.pc = "call", !.pending_summaries = Tail(@)]
  /\ UNCHANGED <<ai_settings, outsideSummaries>>

\* after the last row the pass returns Ok
PsReturn ==
  /\ ps.pc = "call"
  /\ ps.pending_summaries = <<>>
  /\ ps' = NoSummarization
  /\ UNCHANGED <<ai_settings, summaries, outsideSummaries>>

NextSummaries ==
  \/ \E key \in {"aiEnabled", "aiSummarizationEnabled"}, value \in SettingValues :
        SetAi(key, value)
  \/ \E id \in SummaryRows : BodyIndexed(id)
  \/ \E id \in SummaryRows, role \in {"inbox", "archive", "trash"} : MoveTo(id, role)
  \/ \E id \in SummaryRows : RegenerateSummary(id)
  \/ PsBegin
  \/ \E ok \in BOOLEAN : PsSelect(ok)
  \/ \E ok \in BOOLEAN : PsCall(ok)
  \/ PsWrite
  \/ PsReturn

SpecSummaries == Init /\ [][NextSummaries]_vars

(* ----------------- full sync of a mailbox that shrinks ---------------- *)
\* The full-sync loop of sync_folder on the first sync of a folder, with the
\* messages of the mailbox told apart.  A message is named by the sequence
\* number it had when the mailbox was selected, which is its UID as well;
\* uid_next of the descriptor is exists + 1.  Other sessions expunge
\* messages while the sync is between two fetches.
SizesAtSelect == {MaxExists, MaxExists - SYNC_BATCH_SIZE}

\* what one EXPUNGE removes: a block of messages or a single message
Blocks == {k * MaxBlock + 1 .. (k + 1) * MaxBlock : k \in 0..(MaxExists \div MaxBlock - 1)}
Singles == {{1}, {SYNC_BATCH_SIZE}, {SYNC_BATCH_SIZE + 1}, {MaxExists}}

\* select_mailbox, and sync_folder up to its full-sync loop
XSelect(n) ==
  /\ xs.pc = "idle"
  /\ xs' = [NoShrinkSync EXCEPT !.pc = "loop", !.exists = n, !.end = AsU32(n)]
  /\ alive' = 1..n
  /\ local' = {}
  /\ UNCHANGED outsideShrink

\* another session expunges messages of the mailbox
XExpunge(gone) ==
  /\ xs.pc = "loop"
  /\ alive \cap gone # {}
  /\ alive' = alive \ gone
  /\ xs' = [xs EXCEPT !.expunged = IF xs.saved = 0 \/ @ = "early" THEN "early"
                                    ELSE "between"]
  /\ UNCHANGED <<local, outsideShrink>>

\* sequence number of message p now
SeqNo(p) == Cardinality({q \in alive : q <= p})

\* fetch_envelopes_by_sequence(start..=last): the messages in the range
BySequence(start, last) == {p \in alive : start <= SeqNo(p) /\ SeqNo(p) <= last}

\* one iteration of `while end > 0`: the range is fetched and saved, and
\* `end` moves below it; a fetch that returns nothing takes the `break`; a
\* range above the last message may be answered with an error as well
XFetch(answered) ==
  /\ xs.pc = "loop"
  /\ xs.end > 0
  /\ LET start == NonZeroOr1(BatchStart(xs.end))
         envelopes == BySequence(start, NonZeroOr1(xs.end))
     IN /\ answered \/ start > Cardinality(alive)
        /\ xs' = IF ~answered THEN [xs EXCEPT !.pc = "returned", !.result = "Err"]
                 ELSE IF envelopes = {} THEN [xs EXCEPT !.pc = "update"]
                 ELSE [xs EXCEPT !.end = NextEnd(xs.end), !.saved = @ + 1]
        /\ local' = IF answered THEN local \cup envelopes ELSE local
  /\ UNCHANGED <<alive, outsideShrink>>

\* `while end > 0` is false
XLoopEnd ==
  /\ xs.pc = "loop"
  /\ xs.end = 0
  /\ xs' = [xs EXCEPT !.pc = "update"]
  /\ UNCHANGED <<alive, local, outsideShrink>>

\* UPDATE folders SET uid_validity, uid_next, total_count; Ok(())
XUpdate ==
  /\ xs.pc = "update"
  /\ xs' = [xs EXCEPT !.pc = "returned", !.result = "Ok"]
  /\ UNCHANGED <<alive, local, outsideShrink>>

\* the caller has the result
XReturn ==
  /\ xs.pc = "returned"
  /\ xs' = NoShrinkSync
  /\ UNCHANGED <<alive, local, outsideShrink>>

NextShrink ==
  \/ \E n \in SizesAtSelect : XSelect(n)
  \/ \E gone \in Blocks \cup Singles : XExpunge(gone)
  \/ \E answered \in BOOLEAN : XFetch(answered)
  \/ XLoopEnd
  \/ XUpdate
  \/ XReturn

SpecShrink == Init /\ [][NextShrink]_vars

(* ------------------- overlapping syncs of one folder ------------------ *)
\* run_idle_loop, sync_account and refresh_folder each select the folder on
\* a client of their own and hand the descriptor to sync_folder; nothing
\* keeps two of them from doing so at overlapping times.  Of sync_folder the
\* steps that read or write uid_validity and uid_next of the folders row are
\* followed.

\* a message is delivered to the folder
OvDeliver ==
  /\ box.uid_next < MaxUidNext
  /\ box' = [box EXCEPT !.uid_next = @ + 1]
  /\ UNCHANGED <<folder_row, oc, outsideOverlap>>

\* the server starts a new UIDVALIDITY epoch; UIDNEXT starts again at n
OvRenumber(n) ==
  /\ box.uid_validity < MaxEpoch
  /\ box' = [uid_validity |-> box.uid_validity + 1, uid_next |-> n]
  /\ UNCHANGED <<folder_row, oc, outsideOverlap>>

\* select_mailbox: the descriptor is what the server reports now
OvSelect(c) ==
  /\ oc[c].pc = "idle"
  /\ oc' = [oc EXCEPT ![c] = [pc |-> "selected", uid_validity |-> box.uid_validity,
                              uid_next |-> box.uid_next]]
  /\ UNCHANGED <<box, folder_row, outsideOverlap>>

\* sync_folder reads the folders row, and inserts it with the descriptor's
\* values when there is none
OvLookup(c) ==
  /\ oc[c].pc = "selected"
  /\ oc' = [oc EXCEPT ![c].pc = "syncing"]
  /\ folder_row' = IF folder_row.present THEN folder_row
                   ELSE [present |-> TRUE, uid_validity |-> oc[c].uid_validity,
                         uid_next |-> oc[c].uid_next]
  /\ UNCHANGED <<box, outsideOverlap>>

\* uid_next the final UPDATE of sync_folder binds: current_uid_next of the
\* descriptor, whatever the row holds
BoundUidNext(row, data) == data.uid_next

\* the fetches and saves are over (or one of them failed, ok = FALSE); on
\* Ok the row is updated to the descriptor
OvUpdate(c, ok) ==
  /\ oc[c].pc = "syncing"
  /\ oc' = [oc EXCEPT ![c] = NoOverlapCall]
  /\ folder_row' = IF ok THEN [folder_row EXCEPT
                                 !.uid_validity = oc[c].uid_validity,
                                 !.uid_next = BoundUidNext(folder_row, oc[c])]
                   ELSE folder_row
  /\ UNCHANGED <<box, outsideOverlap>>

NextOverlap ==
  \/ OvDeliver
  \/ \E n \in 1..MaxUidNext : OvRenumber(n)
  \/ \E c \in SyncCallers : OvSelect(c)
  \/ \E c \in SyncCallers : OvLookup(c)
  \/ \E c \in SyncCallers, ok \in BOOLEAN : OvUpdate(c, ok)

SpecOverlap == Init /\ [][NextOverlap]_vars

(* ------------------------------ properties ----------------------------- *)
RowKey(r) == [id |-> r.remote_id, message_id |-> r.message_id]

\* the server message with sequence number i has its row in emails
Stored(i) ==
  \E r \in emails : r.remote_id = srvMsgs[i].uid /\ r.message_id = srvMsgs[i].mid

\* the step is one iteration of the loop of save_envelopes
IsSaveRow == pc = "save" /\ batch # <<>> /\ batch' = Tail(batch)

\* C1: when the stored non-zero uid_validity differs from the descriptor's,
\* the rows found are deleted before anything is fetched: from the purge on,
\* and when the call returns Ok, every row of the folder is an envelope
\* fetched by this call.
C1_RowsFromThisCall ==
  ( /\ pc \in {"full", "save", "update", "done"}
    /\ stored.uid_validity # 0
    /\ stored.uid_validity # folder_data.uid_validity )
  => \A r \in emails : RowKey(r) \in fetched

\* a call that found rows of the old epoch returned Ok with rows of the new one
C1_Witness ==
  /\ pc = "done"
  /\ stored.uid_validity # 0
  /\ stored.uid_validity # folder_data.uid_validity
  /\ pre.rows > 0
  /\ emails # {}

\* C2: an interrupted call has not advanced the folder's uid_next past a
\* message that is not stored: every server message between the uid_next
\* the call found (0 when there was no folder row) and the uid_next it
\* leaves has its row.
C2_InterruptKeepsCursor ==
  ( /\ pc = "failed"
    /\ folder.present
    /\ folder.uid_validity = srvUidValidity )
  => \A i \in 1..Len(srvMsgs) :
       (pre.uid_next <= srvMsgs[i].uid /\ srvMsgs[i].uid < folder.uid_next)
         => Stored(i)

\* C3: while every call returned Ok, UIDVALIDITY stayed the same and the
\* mailbox only gained messages, every server message with a UID below the
\* stored uid_next has its row.
C3_NoMessageLost ==
  (pc = "done" /\ clean)
  => \A i \in 1..Len(srvMsgs) : srvMsgs[i].uid < folder.uid_next => Stored(i)

\* C4: the call takes a full sync iff the stored uid_validity differs from
\* the descriptor's or the stored uid_next is 0; otherwise an incremental
\* fetch of the UIDs from the stored uid_next on iff stored uid_next <
\* descriptor uid_next; otherwise it fetches nothing.
C4_ModeByCursor ==
  pc \in {"full", "incr", "save", "update", "done"}
  => LET full == stored.uid_validity # folder_data.uid_validity \/ stored.uid_next = 0
         incr == ~full /\ stored.uid_next < folder_data.uid_next
     IN /\ mode \in {"full", "incr", "noop"}
        /\ (mode = "full") <=> full
        /\ (mode = "incr") <=> incr
        /\ mode = "full" => \A k \in 1..Len(requests) : requests[k].kind = "seq"
        /\ mode = "incr" =>
             /\ Len(requests) <= 1
             /\ pc \in {"save", "update", "done"} => Len(requests) = 1
             /\ \A k \in 1..Len(requests) :
                  requests[k].kind = "uid" /\ requests[k].start = stored.uid_next
        /\ mode = "noop" => requests = <<>>

\* an incremental call returned Ok after its one fetch from the stored uid_next
C4_Witness ==
  /\ pc = "done"
  /\ mode = "incr"
  /\ Len(requests) = 1
  /\ stored.uid_next > 0
  /\ fetched # {}

\* C5: when a call returns Ok the folder's unread_count is the number of
\* its rows whose flags lack seen.
C5_UnreadCountOfRows ==
  pc = "done" => folder.unread_count = Cardinality({r \in emails : "seen" \notin r.flags})

\* C6: when a call returns Ok the folder row holds the descriptor's
\* uid_validity, uid_next and exists.
C6_FolderIsDescriptor ==
  pc = "done" =>
    /\ folder.uid_validity = folder_data.uid_validity
    /\ folder.uid_next = folder_data.uid_next
    /\ folder.total_count = folder_data.exists

\* a call that fetched nothing returned Ok and changed total_count
C6_Witness ==
  /\ pc = "done"
  /\ mode = "noop"
  /\ pre.present
  /\ pre.total_count # folder_data.exists
  /\ folder.total_count = folder_data.exists

\* C7: an upsert of save_envelopes that hits a stored (folder_id,
\* remote_id) leaves the number of rows and every column but flags of every
\* row as they were, so a second run of a batch changes nothing but flags
\* and resets nothing the indexer wrote.
C7_UpsertKeepsRow ==
  [][ (IsSaveRow /\ HasRow(emails, Head(batch).id))
      => /\ Cardinality(emails') = Cardinality(emails)
         /\ \A r \in emails : \E q \in emails' :
              /\ q.remote_id = r.remote_id
              /\ q.message_id = r.message_id
              /\ q.thread_id = r.thread_id
              /\ q.body_text = r.body_text
              /\ (r.remote_id # Head(batch).id => q = r)
              /\ (r.remote_id = Head(batch).id /\ counts'.success = counts.success + 1)
                   => q.flags = Head(batch).flags ]_vars

\* a row indexed before the call was fetched and saved again by the call
\* and still has its body
C7_Witness ==
  /\ pc = "save"
  /\ batch = <<>>
  /\ counts.failure = 0
  /\ \E r \in emails : r.body_text # 0 /\ RowKey(r) \in fetched

\* C8: a call that found the stored uid_next 0 (folder row just created or
\* never synced) shows no notification.
C8_InitialSyncSilent ==
  (pc \in {"purge", "full", "incr", "save", "update", "done", "failed"}
     /\ stored.uid_next = 0)
  => shown = 0

\* an initial sync saved an unseen row and returned Ok
C8_Witness ==
  /\ pc = "done"
  /\ stored.uid_next = 0
  /\ shown = 0
  /\ \E r \in emails : "seen" \notin r.flags /\ RowKey(r) \in fetched

\* C9: in a non-initial sync a notification is shown for an envelope iff
\* the upsert inserted a new row for it and its flags lack seen.
C9_NotifyIffInserted ==
  [][ (IsSaveRow /\ stored.uid_next # 0)
      => ( (shown' = shown + 1)
           <=> ( /\ counts'.success = counts.success + 1
                 /\ ~HasRow(emails, Head(batch).id)
                 /\ "seen" \notin Head(batch).flags ) ) ]_vars

\* C10: no notification is shown while notificationsEnabled is off.
C10_SilentWhenDisabled ==
  [][ shown' > shown => settings.notificationsEnabled = "true" ]_vars

\* C11: with notifications and AI summarization enabled, the one
\* notification shown for a message has the summary as its body, or is the
\* plain one shown after the store was polled for the summary until the
\* 10 seconds were over; a plain notification is never shown unpolled.
C11_SummaryOrPolledPlain ==
  (dispatched.body # "none" /\ dispatched.enabled = "true" /\ dispatched.ai = "true")
    => (dispatched.body = "summary" \/ dispatched.polled)

\* sync_folder calls in progress for folders of account a: by IDLE tasks, by
\* the sync_account of trigger_sync_for_account tasks and of the running
\* sync_all_accounts, and by refresh_folder
SyncFolderCalls(a) ==
  Cardinality({t \in Tasks : /\ tAcct[t] = a
                              /\ \/ tPc[t] = "sync"
                                 \/ tPc[t] = "presync" /\ tRun[t].step = "sync"})
    + (IF pass.run.acct = a /\ pass.run.step = "sync" THEN 1 ELSE 0)
    + (IF refresh[a] = "sync" THEN 1 ELSE 0)

\* C12: in run_idle_loop sync_folder is entered only from a select that
\* returned Ok, the IDLE wait only from a sync_folder that returned Ok, a
\* select only at the loop's start or after an IDLE wait, and an IDLE wait
\* that ends without error (notification or timeout) is followed by select.
C12_SelectSyncIdleOrder ==
  [][ \A t \in Tasks :
        /\ (tPc'[t] = "sync" /\ tPc[t] # "sync") => tPc[t] = "select"
        /\ (tPc'[t] = "idle" /\ tPc[t] # "idle") => tPc[t] = "sync"
        /\ (tPc'[t] = "select" /\ tPc[t] # "select") => tPc[t] \in {"build", "idle"}
        /\ (tPc[t] = "idle" /\ tPc'[t] \notin {"idle", "backoff", "none"})
             => tPc'[t] = "select"
        /\ (tPc[t] = "select" /\ tPc'[t] \notin {"select", "backoff", "none"})
             => tPc'[t] = "sync"
        /\ (tPc[t] = "sync" /\ tPc'[t] \notin {"sync", "backoff", "none"})
             => tPc'[t] = "idle" ]_vars

\* an IDLE wait, entered after its select and sync, with its timer running
C12_Witness == \E t \in Tasks : tPc[t] = "idle" /\ tTimer[t] > 0

\* C13: an IDLE wait never lasts longer than 29 minutes: its timer is
\* running or over while it lasts, and when the timer is over the wait
\* ends with Ok and the loop goes to select INBOX.
C13_IdleEndsBy29Min ==
  /\ [](\A t \in Tasks : tPc[t] = "idle" =>
            (tTimer[t] >= 0 /\ tWaited[t] <= IDLE_REFRESH_SECS))
  /\ [][ \A t \in Tasks : IdleTimeout(t) => tPc'[t] = "select" ]_vars

\* an IDLE wait that has lasted the 29 minutes
C13_Witness ==
  \E t \in Tasks : tPc[t] = "idle" /\ tTimer[t] = 0 /\ tWaited[t] = IDLE_REFRESH_SECS

\* C14: a step of run_idle_loop that does not go on to the loop's next
\* step leads to the 30 second sleep (or the task is cancelled); the sleep
\* is slept to its end and followed by a new run_idle_loop, which comes to
\* select INBOX; a task ends only when it is cancelled.
C14_ErrorBackoffRestart ==
  [][ \A t \in Tasks :
        /\ (tPc[t] \in {"build", "select", "sync", "idle"} /\ tPc'[t] # tPc[t]
              /\ tPc'[t] # LoopAfter(tPc[t]) /\ tPc'[t] # "none")
             => (tPc'[t] = "backoff" /\ tTimer'[t] = IDLE_RETRY_SECS)
        /\ (tPc[t] = "backoff" /\ tPc'[t] # "backoff")
             => (tTimer[t] = 0 /\ tPc'[t] = "top")
        /\ (tPc[t] = "top" /\ tPc'[t] \notin {"top", "none"}) => tPc'[t] = "build"
        /\ (tPc[t] = "build" /\ tPc'[t] \notin {"build", "backoff", "none"})
             => tPc'[t] = "select"
        /\ (tPc[t] # "none" /\ tPc'[t] = "none") => Cancelled(t) ]_vars

\* a task whose run_idle_loop failed and whose 30 seconds are over
C14_Witness == \E t \in Tasks : tPc[t] = "backoff" /\ tTimer[t] = 0

\* C15: the cancellation of an IDLE task acts only at the top of the outer
\* loop: a task is never ended while its sync_folder is running or its IDLE
\* wait is on.
C15_CancelOnlyAtTop ==
  [][ \A t \in Tasks : tPc[t] \in {"sync", "idle"} => tPc'[t] # "none" ]_vars

\* C16: no two sync_folder calls for folders of one account are in
\* progress at the same time.
C16_OneSyncPerAccount == \A a \in Accounts : SyncFolderCalls(a) <= 1

\* C17: a sync_account of the periodic pass that is blocked does not keep
\* the sync of another account of the pass from starting.
C17_BlockedSyncHoldsNoOther ==
  (pass.kind = "periodic" /\ pass.stuck /\ pass.next <= MaxAccounts)
    => ENABLED PassNextAccount

\* C18: the initial sync_all_accounts runs, once, before start spawns any
\* IDLE task; from the spawn of the periodic task on that task is asleep or
\* in its pass; a periodic pass begins when the 300 seconds are slept, and
\* when it returns, with or without error, the 300 second sleep begins anew.
C18_InitialThenEvery300 ==
  /\ []( /\ (\E t \in Tasks : tBy[t] = "start") => startPc = "started"
         /\ pass.kind = "initial" <=> startPc = "initial"
         /\ startPc \in {"idles", "started"}
              => (periodicLeft >= 0 \/ pass.kind = "periodic") )
  /\ [][ /\ (pass.kind # "periodic" /\ pass'.kind = "periodic")
              => (periodicLeft = 0 /\ periodicSlept = PERIODIC_SYNC_SECS)
         /\ (pass.kind = "periodic" /\ pass'.kind # "periodic")
              => (periodicLeft' = PERIODIC_SYNC_SECS /\ periodicSlept' = 0) ]_vars

\* a periodic pass that failed at once is about to return, next to the
\* IDLE tasks start has spawned
C18_Witness ==
  /\ pass.kind = "periodic"
  /\ pass.failed
  /\ \E t \in Tasks : tBy[t] = "start"

\* the text matches one of the four substrings send_email looks for
C20_AuthClass(e) ==
  \E p \in {"auth", "Unauthorized", "token", "credentials"} : Contains(e, p)

\* C20: in send_email a first attempt of a step (build, send) that fails
\* with an authentication-class error leads to one refresh_access_token call,
\* and a refresh that succeeds to one more attempt of that step; an error
\* of the refresh, of the rebuild or of the second attempt is returned with
\* no further refresh; a first error that is not authentication-class is
\* returned without a refresh.
C20_OneRefreshOneRetry ==
  /\ [](\A s \in {"build", "send"} :
          /\ send.refreshes[s] <= 1
          /\ send.tries[s] <= 1 + send.refreshes[s])
  /\ [][ /\ (send.pc = "try" /\ send'.pc \notin {"try", "sent"})
              => /\ send'.tries[send.step] = 1
                 /\ IF C20_AuthClass(send'.err)
                      THEN send'.pc = "refresh" /\ send'.refreshes = send.refreshes
                      ELSE send'.pc = "returned" /\ send'.refreshes = send.refreshes
         /\ send.pc = "refresh"
              => /\ send'.refreshes[send.step] = 1
                 /\ send'.tries = send.tries
                 /\ send'.pc \in {"rebuild", "retry", "returned"}
                 /\ (send'.pc = "returned") <=> (tokenOf' = tokenOf)
         /\ send.pc \in {"rebuild", "retry"}
              => /\ send'.refreshes = send.refreshes
                 /\ send'.pc \in {"retry", "try", "sent", "returned"}
         /\ (send.pc = "retry" /\ send'.pc # "retry")
              => send'.tries[send.step] = 2
         /\ send.pc \in {"sent", "returned"} => send'.pc = "idle" ]_vars

\* the second attempt of the send step failed with an authentication-class
\* error after the one refresh and send_email has returned the error
C20_Witness ==
  /\ send.pc = "returned"
  /\ send.step = "send"
  /\ send.refreshes.send = 1
  /\ send.tries.send = 2
  /\ C20_AuthClass(send.err)

C21_TerminatesIdempotent ==
  /\ [](ns.pc = "returned" /\ ns.round = 2 => ns.s = ns.first)
  /\ [][ ns.pc = "loop" => (ns'.pc = "returned" \/ Len(ns'.s) < Len(ns.s)) ]_vars

\* a subject with a reply prefix and a bracketed prefix has been normalised
\* twice; the first call stripped both
C21_Witness ==
  /\ ns.pc = "returned"
  /\ ns.round = 2
  /\ ns.subject = "Re:[Jira]x"
  /\ ns.first = "x"

\* C22: when resolve_threads returns, every row tier 1 selected whose
\* in_reply_to is the message_id of a stored row has the thread_id of that
\* row; an iteration of tier 1 on a row whose in_reply_to is not stored
\* changes no row.
C22_RepliesShareParentThread ==
  /\ [](rt.pc = "returned" =>
          \A id \in rt.sel1 : \A p \in 1..Len(mail) :
            mail[p].message_id = mail[id].in_reply_to
              => mail[id].thread_id = mail[p].thread_id)
  /\ [][ rt.pc = "tier1" /\ rt.queue # <<>>
         /\ (\A p \in 1..Len(mail) :
               mail[p].message_id # mail[Head(rt.queue)].in_reply_to)
         => mail' = mail ]_vars

\* C23: for the rows that share one thread_id, get_emails returns exactly
\* one entry, and its thread_count is the number of those rows (the root,
\* whose thread_id is its own message_id, among them). Stated for the
\* threads none of whose rows is grouped with a row of another thread_id.
C23_OneEntryPerThread ==
  listing.valid =>
    \A t \in {mail[k].thread_id : k \in 1..Len(mail)} :
      LET rows == {k \in 1..Len(mail) : mail[k].thread_id = t}
          others == (1..Len(mail)) \ rows
          shown_ == {e \in listing.entries : e.id \in rows}
      IN (\A k \in rows, j \in others : ThreadKey(mail[k]) # ThreadKey(mail[j]))
           => /\ Cardinality(shown_) = 1
              /\ \A e \in shown_ : e.thread_count = Cardinality(rows)

\* C24: between add_account calls, load() returns one account for each
\* email an add_account returned Ok for and no other, each with the id of
\* the accounts row of its email and the secrets of the last such call; the
\* accounts table has one row per email.
C24_OneAccountPerEmail ==
  aa.pc = "idle" =>
    LET registry == Load
    IN /\ \A i, j \in 1..Len(registry) :
            registry[i].email = registry[j].email => i = j
       /\ {registry[i].email : i \in 1..Len(registry)} = DOMAIN added
       /\ \A i \in 1..Len(registry) :
            /\ \E r \in accounts_table :
                 r.email = registry[i].email /\ r.id = registry[i].id
            /\ registry[i].token = added[registry[i].email].token
       /\ \A r, q \in accounts_table : r.email = q.email => r = q

\* both emails added, then the first one added again with another secret
C24_Witness ==
  /\ aa.pc = "idle"
  /\ Len(Load) = 2
  /\ Load[1].email = 2 /\ Load[1].id = 2
  /\ Load[2].email = 1 /\ Load[2].id = 1 /\ Load[2].token = 2
  /\ Cardinality(accounts_table) = 2

\* C25: a full sync of exists = N all of whose fetches return envelopes
\* requests ranges in descending order, of at most SYNC_BATCH_SIZE numbers
\* each, pairwise disjoint, that cover exactly 1..N, in (N + 99) \div 100
\* fetches (none for N = 0); a range is requested only when every range
\* before it was saved.
C25_DescendingBatchesCoverAll ==
  /\ \A i \in 1..(Len(fs.ranges) - 1) : fs.ranges[i].saved
  /\ \A i \in 1..Len(fs.ranges) :
       /\ 1 <= fs.ranges[i].start /\ fs.ranges[i].start <= fs.ranges[i].last
       /\ fs.ranges[i].last - fs.ranges[i].start + 1 <= 100
       /\ \A j \in 1..Len(fs.ranges) : i < j => fs.ranges[j].last < fs.ranges[i].start
  /\ fs.result = "Ok" /\ ~fs.empty =>
       /\ Len(fs.ranges) = (fs.exists + 99) \div 100
       /\ UNION {fs.ranges[i].start..fs.ranges[i].last : i \in 1..Len(fs.ranges)}
            = 1..fs.exists
       /\ \A i \in 1..Len(fs.ranges) : fs.ranges[i].saved

\* 250 messages were synced in three batches, the last one of 50
C25_Witness ==
  /\ fs.result = "Ok" /\ ~fs.empty /\ fs.exists = 250
  /\ Len(fs.ranges) = 3
  /\ fs.ranges[3].start = 1 /\ fs.ranges[3].last = 50

\* C26: save_envelopes returns an error exactly when a row of the batch
\* failed and none succeeded; otherwise the sync goes on with the next batch
\* or the folder update. After the error the call only returns: no fetch,
\* and the folder row keeps the uid_validity, uid_next and total_count it had
\* (for a row that existed before the call, those of before the call).
C26_ErrorIffNoRowSaved ==
  /\ [][ SaveFinish =>
           /\ (pc' = "failed") <=> (counts.failure > 0 /\ counts.success = 0)
           /\ pc' # "failed" => pc' \in {"full", "update"}
           /\ folder'.uid_validity = folder.uid_validity
           /\ folder'.uid_next = folder.uid_next
           /\ folder'.total_count = folder.total_count ]_vars
  /\ [][ pc = "failed" =>
           /\ pc' = "idle"
           /\ folder' = folder
           /\ requests' = <<>> ]_vars
  /\ [](pc = "failed" /\ counts.failure > 0 /\ counts.success = 0 /\ pre.present =>
          /\ folder.uid_validity = stored.uid_validity
          /\ folder.uid_next = pre.uid_next
          /\ folder.total_count = pre.total_count)

\* every row of a batch failed in a call on a stored folder whose uid_next
\* is behind the server's
C26_Witness ==
  /\ pc = "failed"
  /\ counts.failure > 0 /\ counts.success = 0
  /\ batch = <<>>
  /\ pre.present
  /\ folder.uid_next # folder_data.uid_next

\* C27: a fetch of the full sync that returns no envelope ends the loop: no
\* further range is requested, and the call goes on to the folder update,
\* after which it returns Ok with the folder row at the descriptor's
\* uid_validity, uid_next and exists.
C27_EmptyBatchEndsLoop ==
  /\ [][ pc = "full" /\ end > 0 /\ Len(requests') = Len(requests) + 1
         /\ FetchBySequence(NonZeroOr1(BatchStart(end)), NonZeroOr1(end)) = <<>>
         => pc' = "update" /\ end' = end ]_vars
  /\ [][ pc = "update" => /\ requests' = requests
                          /\ pc' \in {"done", "failed"}
                          /\ UpdateFolder => pc' = "done" ]_vars
  /\ [](pc = "done" /\ mode = "full" /\ end > 0 =>
          /\ requests[Len(requests)].last = end
          /\ folder.uid_validity = folder_data.uid_validity
          /\ folder.uid_next = folder_data.uid_next
          /\ folder.total_count = folder_data.exists)

\* the mailbox lost its messages after the select: the first fetch of a full
\* sync came back empty and the call returned Ok
C27_Witness ==
  /\ pc = "done" /\ mode = "full" /\ end > 0
  /\ folder_data.exists > 0
  /\ folder.total_count = folder_data.exists
  /\ fetched = {}

\* C28: a select_mailbox or sync_folder that fails ends the sync_account
\* with the error: no later folder of the listing is selected or synced.
\* The call leaves nothing behind, the next one starts with the folder
\* listing, and a call that returns Ok has synced every folder with a role.
C28_FolderErrorEndsPass ==
  /\ [][ sa.pc = "select" /\ sa' # sa /\ sa'.pc # "sync"
         => sa'.pc = "returned" /\ sa'.result = "Err" ]_vars
  /\ [][ sa.pc = "sync" /\ sa' # sa /\ sa.folders[sa.i].name \notin sa'.synced
         => sa'.pc = "returned" /\ sa'.result = "Err" ]_vars
  /\ [](sa.pc = "returned" /\ sa.result = "Err" =>
          \A j \in 1..Len(sa.folders) :
            j > sa.i => /\ sa.folders[j].name \notin sa.synced
                        /\ \A k \in 1..Len(sa.selected) :
                             sa.selected[k] # sa.folders[j].name)
  /\ [][ sa.pc = "returned" => sa' = NoSyncAccount ]_vars
  /\ [][ sa.pc = "idle" /\ sa' # sa => sa'.pc = "list" /\ sa'.folders = <<>> ]_vars
  /\ [](sa.pc = "returned" /\ sa.result = "Ok" => Unsynced(sa) = {})

\* the first call failed at the first of two folders with a role; the
\* second call synced both
C28_Witness ==
  /\ Len(passLog) = 1
  /\ passLog[1].result = "Err" /\ passLog[1].unsynced = 2
  /\ sa.pc = "returned" /\ sa.result = "Ok"
  /\ Cardinality(sa.synced) = 2

\* C29: a sync_account that returns Ok has selected exactly the folders of
\* its listing that map to a role, where the reported kind decides first
\* and otherwise the lower-cased name does (spam or junk: spam; trash, bin
\* or deleted: trash; archive or all mail: archive); a folder that maps to
\* no role has no folders row.
C29_SyncedIffRole ==
  LET has(f, part) == Contains(ToLowercase(f.name), part)
      mapped(f) == \/ f.kind # ""
                   \/ has(f, "spam") \/ has(f, "junk")
                   \/ has(f, "trash") \/ has(f, "bin") \/ has(f, "deleted")
                   \/ has(f, "archive") \/ has(f, "all mail")
  IN /\ sa.pc = "returned" /\ sa.result = "Ok" =>
          \A j \in 1..Len(sa.folders) :
            mapped(sa.folders[j]) <=>
              \E k \in 1..Len(sa.selected) : sa.selected[k] = sa.folders[j].name
     /\ \A f \in RemoteFolders : ~mapped(f) => f.name \notin folder_rows

\* C30: an IDLE task whose receiver has fired ends, wherever it is: in
\* run_idle_loop (building, selecting, syncing, idling) or in the sleep after
\* an error; a task that has ended takes no step, the next thing in its
\* place is a newly spawned task.
C30_CancelledTaskExits ==
  /\ \A t \in Tasks :
       (tPc[t] \in {"top", "build", "select", "sync", "idle", "backoff"} /\ Cancelled(t))
         ~> (tPc[t] = "none")
  /\ [][ \A t \in Tasks : tPc[t] = "none" => tPc'[t] \in {"none", "presync"} ]_vars

\* the sender of a task was dropped while the task sleeps after an error
C30_Witness ==
  \E t \in Tasks : tPc[t] = "backoff" /\ tTimer[t] > 0 /\ Cancelled(t)


\* C31: of each kind of spawned pass at most one is running or sleeping its
\* delay, and the enrichment and summarization passes of an iteration are
\* spawned at least WORKER_CYCLE_SECS after those of the iteration before
C31_OnePassPerWorker ==
  /\ \A k \in Kinds : Cardinality(InProgress(k)) <= 1
  /\ \A i \in 1..Len(spawned) : ~spawned[i].early


\* C32: no failure ends the worker's loop: once started the loop can always
\* take its next step (up to the bound on the tasks followed), a failed
\* SELECT of the indexing pass leads to the sleep that precedes the next
\* iteration, and a row whose fetch or AI call fails takes exactly one row
\* off the rows left to its pass, which goes on
C32_NoFailureEndsTheLoop ==
  /\ [](/\ wk.pc = "index" => ENABLED IndexQuery(TRUE, 0)
        /\ wk.pc = "items" => ENABLED IndexItem(TRUE) \/ ENABLED IndexReturn(0)
        /\ wk.pc = "sleep" => ENABLED IndexSleepOver
        /\ wk.pc = "spawn" /\ Len(spawned) < MaxSpawns
             => ENABLED SpawnPasses(THREADS_CALM_SECS))
  /\ [][IndexQuery(FALSE, 0) => wk'.pc = "sleep" /\ wk'.result = "err"]_vars
  /\ [][wk'.failed > wk.failed
          => wk'.pc = "items" /\ wk'.left = wk.left - 1]_vars
  /\ [][\A i \in 1..MaxSpawns :
          SumItem(i, FALSE) => /\ spawned'[i].todo = spawned[i].todo - 1
                               /\ spawned'[i].ph["summarization"] = "run"]_vars

\* a pass of the loop that follows a failed one, in which two fetches have
\* failed, next to a summarization pass spawned after a failed one
C32_Witness ==
  /\ wk.pc = "items" /\ wk.result = "err" /\ wk.failed = 2
  /\ \E i, j \in 1..Len(spawned) :
       /\ i < j
       /\ spawned[i].ph["summarization"] = "failed"
       /\ spawned[j].ph["summarization"] = "run"


\* C33: every group of rows in a folder that is neither trash nor spam and
\* whose messages have a text part ends with no NULL body_text left
C33_EveryFetchableRowIndexed ==
  \A i \in 1..MaxGroups :
    (Len(backlog) >= i /\ backlog[i].kind = "text" /\ backlog[i].role = "inbox")
      ~> (Len(backlog) >= i /\ backlog[i].pending = 0)


\* C34: an iteration of the tier 2 loop gives its row the thread_id of the
\* last id of the header, between blanks and commas, that is the message_id
\* of a stored row, leaves the row as it is when there is none, and leaves
\* every other row as it is
C34_LastStoredReferenceWins ==
  [][RtLinkRefs =>
       LET id == Head(rt.queue)
           h == mail[id].references_header
           sep(p) == p = 0 \/ p = Len(h) + 1 \/ h[p] \in {Blank, Comma}
           known(p) == /\ ~sep(p) /\ sep(p - 1) /\ sep(p + 1)
                        /\ \E k \in 1..Len(mail) : mail[k].message_id = h[p]
           at == {p \in 1..Len(h) : known(p)}
       IN /\ \A k \in 1..Len(mail) : k # id => mail'[k] = mail[k]
          /\ at = {} => mail'[id] = mail[id]
          /\ \A p \in at :
               (\A q \in at : q <= p)
                 => mail'[id] = [mail[id] EXCEPT !.thread_id = ParentThread(h[p])]]_vars

\* tier 2 has linked a row to the thread of the second of its two
\* references, both of which are stored, in threads that differ
C34_Witness ==
  /\ rt.pc = "tier2"
  /\ \E id \in 1..Len(mail) :
       LET h == mail[id].references_header
       IN /\ Len(h) >= 3
          /\ ParentThread(h[1]) # 0
          /\ ParentThread(h[Len(h)]) # 0
          /\ ParentThread(h[1]) # ParentThread(h[Len(h)])
          /\ mail[id].thread_id = ParentThread(h[Len(h)])
          /\ mail[id].thread_id # mail[id].message_id
          /\ mail[id].in_reply_to = 0


C37_NoSurvivorSkipped ==
  xs.pc = "returned" /\ xs.result = "Ok" /\ xs.expunged = "between"
    => alive \subseteq local


\* C38: a step that leaves the uid_validity of the folders row as it was
\* does not lower its uid_next
C38_UidNextNeverDecreases ==
  [][folder_row.present /\ folder_row'.uid_validity = folder_row.uid_validity
       => folder_row'.uid_next >= folder_row.uid_next]_vars


\* C39: the insert of start_idle_for_account leaves every other loop of the
\* same account with a dropped sender, and of two loops of one account one
\* ends: the older loop does not go on next to the newer one
C39_OneIdleLoopStays ==
  /\ [][ \A t \in Tasks :
           tPc[t] = "register" /\ tPc'[t] = "top" =>
             \A u \in Tasks \ {t} :
               tAcct[u] = tAcct[t] /\ InIdleLoop(u) => idle_senders'[tAcct[u]] # u ]_vars
  /\ \A t \in Tasks : \A u \in Tasks \ {t} :
       (tAcct[t] # 0 /\ tAcct[u] = tAcct[t] /\ InIdleLoop(t) /\ InIdleLoop(u))
         ~> (tPc[t] = "none" \/ tPc[u] = "none")

\* a second start_idle_for_account has stored its sender while the loop that
\* was running for the account is in its sync_folder or its IDLE wait
C39_Witness ==
  \E t \in Tasks : \E u \in Tasks \ {t} :
    /\ tAcct[t] # 0 /\ tAcct[u] = tAcct[t]
    /\ InIdleLoop(t) /\ idle_senders[tAcct[t]] = t
    /\ tPc[u] \in {"sync", "idle"}


\* C40: when no further resolve_threads pass would change a row, the stored
\* rows of a chain a, b in reply to a, c in reply to b have one thread_id
C40_ChainEndsInOneThread ==
  rt.pc = "idle" /\ ~PassWouldChange("engine") =>
    \A a, b, c \in 1..Len(mail) :
      /\ mail[a].in_reply_to = 0
      /\ mail[b].in_reply_to = mail[a].message_id
      /\ mail[c].in_reply_to = mail[b].message_id
      => mail[a].thread_id = mail[b].thread_id /\ mail[b].thread_id = mail[c].thread_id

====
